---- MODULE Spec2Model ----
(***************************************************************************)
(* A state-machine model of the rustic backup core.                        *)
(*                                                                         *)
(*  - Spec      : two successive runs of Archiver::archive (archiver.rs)   *)
(*                on one repository: the pipeline                          *)
(*                source -> TreeIterator -> Parent -> parallel FileArchiver *)
(*                -> ordered hand-over -> TreeArchiver, then the finalize   *)
(*                sequence and the snapshot save.                           *)
(*  - SpecLocal : LocalBackend::write_bytes (backend/local.rs) as the      *)
(*                sequence of its file-system calls, with a crash possible  *)
(*                between any two of them.                                  *)
(*                                                                         *)
(* Ids are content addresses; the hash is modelled as injective, so a data *)
(* blob id is the chunk it names and a tree blob id is the node list it    *)
(* names.  File metadata (size, mtime, ...) is the field m of an entry.    *)
(***************************************************************************)
EXTENDS Naturals, Integers, Sequences, FiniteSets, TLC

\* ------------------------------------------------------------------ bounds
\* longest source (number of entries the source iterator yields)
MaxEntries == 2
\* threads of the parallel FileArchiver stage
NumWorkers == 2
\* blobs after which a pack has reached its effective target size
PackTarget == 2
\* index packs after which the Indexer flushes an index file
IndexTarget == 2

\* longest buffer given to write_bytes
MaxLen == 2
\* calls of backend operations in one behaviour
MaxOps == 2
\* bytes of an Id in the model (constants::LEN of id.rs is 32)
IdLen == 2

\* ConfigFile: the versions 0..MaxVersion, the levels -MaxLevel..MaxLevel
MaxVersion == 3

MaxLevel == 7

\* the blobs of a pack
MaxBlobs == 3

\* the tags 1..MaxTag (strings, in their order) and the times 1..MaxTime
MaxTag == 2

MaxTime == 2

\* the snapshot files of a repository
MaxSnaps == 3

\* the components of a path, and the paths of a list
MaxDepth == 2

MaxPaths == 3

\* the entries of the source of a backup whose threads are followed, and
\* the results the workers can hand over before one is taken
MaxItems == 3

ChannelCap == 1

Workers == 1..NumWorkers

\* chunk lists the chunker can produce for a file (a data blob id per chunk)
Contents == {<<1>>, <<2>>, <<1, 2>>}

\* ----------------------------------------------------------------- source
\* One item of ReadSource::entries(): k = "err" is an Err item; otherwise
\* p is the directory of the entry after the mapping of archiver.rs:97-108
\* (0 = the backup root, 1 = inside the sub-directory), c the chunk list of
\* the file's bytes, m its metadata, r whether open/read succeeds.
FileEntry(p, c, r) == [k |-> "file", p |-> p, c |-> c, m |-> c, r |-> r]

DirEntry == [k |-> "dir", p |-> 1, c |-> <<>>, m |-> <<>>, r |-> TRUE]

ErrEntry == [k |-> "err", p |-> 0, c |-> <<>>, m |-> <<>>, r |-> TRUE]

EntrySet ==
    {FileEntry(p, c, TRUE) : p \in {0, 1}, c \in Contents}
        \cup {FileEntry(p, <<1>>, FALSE) : p \in {0, 1}}
        \cup {DirEntry, ErrEntry}

\* The source yields entries in lexicographic order: the entries of the
\* sub-directory follow its directory entry without interruption.
WellFormed(s) ==
    /\ Cardinality({i \in DOMAIN s : s[i].k = "dir"}) <= 1
    /\ \A i \in DOMAIN s :
          (s[i].k = "file" /\ s[i].p = 1) =>
              /\ i > 1
              /\ \/ s[i - 1].k = "dir"
                 \/ (s[i - 1].k = "file" /\ s[i - 1].p = 1)

Sources ==
    {s \in UNION {[1..n -> EntrySet] : n \in 0..MaxEntries} : WellFormed(s)}

\* The same source tree at the next backup: unchanged, or with the bytes
\* (and so the metadata) of its first readable file changed.
Touch(c) == IF c = <<1>> THEN <<1, 2>> ELSE <<1>>

Edits(s) ==
    LET fs == {j \in DOMAIN s : s[j].k = "file" /\ s[j].r}
    IN {s} \cup {[s EXCEPT ![i] = FileEntry(s[i].p, Touch(s[i].c), TRUE)] :
                    i \in {j \in fs : \A h \in fs : j <= h}}

VARIABLES
    \* ---- Archiver::archive
    phase,        \* "A": first backup, "B": the backup after it
    pc,           \* position of Archiver::archive
    src,          \* the source of the run
    srcLen,       \* entries the source iterator yields before it ends
    srcPos,       \* next entry of the source iterator
    cancelled,    \* the source iterator was ended early
    curDir,       \* TreeIterator: 0 in the root, else the name of the open dir
    parent,       \* Archiver.parent_tree: <<>> or <<tree id>>
    seqNext,      \* parallel_map: index given to the next item
    queue,        \* parallel_map: items waiting for a worker
    wk,           \* parallel_map: the worker threads
    results,      \* parallel_map/readahead: finished, not yet consumed
    outNext,      \* parallel_map: index of the next result handed on
    \* ---- TreeArchiver
    rootList, subList, inSub, subName,
    \* ---- Packers (data, tree) and Indexer
    dpOpen, dpFailed, tpOpen,
    knownD, knownT, pendD, pendT,
    indexD, indexT,    \* the IndexedBackend given to Archiver::new
    \* ---- Backend
    dataPacks, treePacks, indexes, snaps,
    \* ---- SnapshotFile of the run
    snapTree, snapId,
    \* ---- history of the run (observations only)
    retId,        \* the id returned by be.save_file (archiver.rs:147)
    hist, emitted, received, srcSkipped, parDropped, readFailed,
    packWrites, treeA, srcA, snapIx, wroteFail, errSeqs,
    \* ---- LocalBackend
    fs,           \* the files below the repository root: path -> bytes
    wb,           \* the write_bytes call in progress
    wprev,        \* what the final path held when the call began
    wend,         \* how the last call ended: "none", "ok", "err", "crash"
    ops,          \* backend calls made so far
    dirs,         \* the directories below the repository root
    cmds,         \* post_create_command, post_delete_command
    last,         \* the last backend call and how it ended
    rprev,        \* the files when the last remove was called
    okw,          \* (type, id) -> bytes of a write_bytes that returned Ok,
                  \* until the next write_bytes or remove of that (type, id)
    okp,          \* the same per path, until the next one on that path
    clean,        \* no create, write_bytes or remove has failed so far
    \* ---- Id (id.rs)
    hs,           \* the string given to Id::from_hex
    hx,           \* the Id given to Id::to_hex
    hr,           \* the last call and what it returned
    \* ---- ConfigFile (repofile/configfile.rs)
    cv,           \* version
    cc,           \* compression: <<>> is None, <<c>> is Some(c)
    cr,           \* the last call of zstd and what it returned
    \* ---- Packer and its IndexPack (repofile/indexfile.rs)
    pkT,          \* the blob type the Packer writes
    pkSize,       \* the bytes of the pack written so far
    ipBlobs,      \* IndexPack.blobs
    ipRes,        \* what the last call of blob_type returned
    \* ---- SnapshotFile (repofile/snapshotfile.rs)
    sn,           \* the snapshot: its tags and its delete option
    snArgs,       \* the arguments of the call
    snRes,        \* the last call, the snapshot before it, what it returned
    \* ---- init (commands/init.rs, commands/key.rs)
    inPc,         \* the step init is at
    inOpts,       \* KeyOptions: which of its fields are set
    inLog,        \* the backend operations made, in order, with their results
    inRepo,       \* the repository: directories made, key files, config
    inRet,        \* what init returned: "none", "ok", "err"
    \* ---- SnapshotFile::latest
    laStore,      \* the items of be.stream_all, in the order they arrive
    laPos,        \* the item the loop is at
    laLatest,     \* the variable latest of the loop
    laRes,        \* what latest returned
    \* ---- PathList::merge
    plIn,         \* the paths of the list
    plOut,         \* None, or the list merge returned
    \* ---- IndexBlob
    ibA,          \* two IndexBlobs
    ibB,
    ibRes,         \* what a.cmp(b) and a == b returned
    \* ---- LocalBackend::list and list_with_size
    lsBig,        \* the files whose length does not fit in a u32
    lsRes,         \* what list and list_with_size returned
    \* ---- the threads of the scope of Archiver::archive
    scSrc,        \* entries the source has yet to yield
    scIn,         \* parallel_map: items sent to the workers, not yet taken
    scInTx,       \* parallel_map: the sender of that channel is alive
    scOut,        \* parallel_map: results sent by the workers, not yet taken
    scOutRx,      \* parallel_map: the receiver of that channel is alive
    scFlight,     \* parallel_map: items sent whose result was not received
    scWk,         \* the worker threads: "recv", "busy", "send", "exit"
    scRa,         \* the readahead thread: "next", "send", "exit"
    scCons,       \* try_for_each: "recv", "add", "join", "returned"
    scRet,        \* the result of the scope: "none", "ok", "err"
    scSeen        \* add failed while a thread was blocked in a send

avars == <<phase, pc, src, srcLen, srcPos, cancelled, curDir, parent, seqNext,
           queue, wk, results, outNext, rootList, subList, inSub, subName,
           dpOpen, dpFailed, tpOpen, knownD, knownT, pendD, pendT, indexD,
           indexT, dataPacks, treePacks, indexes, snaps, snapTree, snapId,
           retId, hist, emitted, received, srcSkipped, parDropped, readFailed,
           packWrites, treeA, srcA, snapIx, wroteFail, errSeqs>>

lvars == <<fs, wb, wprev, wend, ops, dirs, cmds, last, rprev, okw, okp, clean>>

ivars == <<hs, hx, hr>>

cvars == <<cv, cc, cr>>

xvars == <<pkT, pkSize, ipBlobs, ipRes>>

snvars == <<sn, snArgs, snRes>>

\* the variables of the snapshot file and of the commands
nvars == <<inPc, inOpts, inLog, inRepo, inRet>>

lavars == <<laStore, laPos, laLatest, laRes>>

plvars == <<plIn, plOut>>

ibvars == <<ibA, ibB, ibRes>>

lsvars == <<lsBig, lsRes>>

scvars == <<scSrc, scIn, scInTx, scOut, scOutRx, scFlight, scWk, scRa, scCons, scRet, scSeen>>

mvars == <<snvars, nvars, lavars, plvars, ibvars, lsvars, scvars>>

\* the variables of the parts other than the backup and the backend
fvars == <<ivars, cvars, xvars, mvars>>

vars == <<avars, lvars, fvars>>

\* ---------------------------------------------------------------- helpers
Range(s) == {s[i] : i \in DOMAIN s}

NoItem == [tt |-> "none", i |-> 0, par |-> "none", pn |-> <<>>]

NoNode == [n |-> 0, t |-> "none", c |-> <<>>, m |-> <<>>, sub |-> <<>>]

FileNode(i, c, m) == [n |-> i, t |-> "file", c |-> c, m |-> m, sub |-> <<>>]

DirNode(i, tree) == [n |-> i, t |-> "dir", c |-> <<>>, m |-> <<>>, sub |-> tree]

IdleWorker == [st |-> "idle", seq |-> 0, item |-> NoItem, pos |-> 0, pk |-> <<>>]

\* ------------------------------------------------------------------ Parent
\* The node list the Parent walker is positioned on: the parent's root tree,
\* or the parent's sub-tree of the directory TreeIterator is in (empty when
\* the parent has no such directory: everything nested is New).
ParentList ==
    IF parent = <<>> THEN <<>>
    ELSE IF curDir = 0 THEN parent[1]
    ELSE LET ds == {j \in DOMAIN parent[1] :
                       parent[1][j].n = curDir /\ parent[1][j].t = "dir"}
         IN IF ds = {} THEN <<>> ELSE parent[1][CHOOSE j \in ds : TRUE].sub

\* Matched / Changed / New for the file entry named i.
ParentResult(i) ==
    LET l  == ParentList
        js == {j \in DOMAIN l : l[j].n = i /\ l[j].t = "file"}
    IN IF js = {} THEN [par |-> "new", pn |-> <<>>]
       ELSE LET o == l[CHOOSE j \in js : TRUE]
            IN IF o.m = src[i].m
                  THEN [par |-> "matched", pn |-> o.c]
                  ELSE [par |-> "changed", pn |-> <<>>]

\* ------------------------------------------------------- Packer / Indexer
bvars == <<dataPacks, treePacks, knownD, knownT, pendD, pendT, indexes,
           packWrites>>

\* add-blob step 1: is the blob already stored?  The loaded index, the
\* Indexer (index packs handed over in this process) and the blobs of the
\* pack being filled are consulted.
HasData(id) == id \in indexD \/ id \in knownD \/ id \in Range(dpOpen)

HasTree(id) == id \in indexT \/ id \in knownT \/ id \in Range(tpOpen)

IndexFull(nd, nt) == Cardinality(nd) + Cardinality(nt) >= IndexTarget

PendAfter(tpe, P) ==
    [d |-> IF tpe = "data" THEN pendD \cup {P} ELSE pendD,
     t |-> IF tpe = "tree" THEN pendT \cup {P} ELSE pendT]

\* Pack finalization succeeded: the pack was written, and the index file
\* was written if handing the IndexPack over made the Indexer flush.
PublishOk(tpe, P, wOk, fOk) ==
    LET n == PendAfter(tpe, P)
    IN wOk /\ (IndexFull(n.d, n.t) => fOk)

\* Pack finalization: write the pack (wOk: the backend write succeeds), then
\* hand its IndexPack to the Indexer, which flushes an index file when its
\* threshold is crossed (fOk: that write succeeds).
Publish(tpe, P, wOk, fOk) ==
    LET n == PendAfter(tpe, P)
    IN IF ~wOk
         THEN UNCHANGED bvars
         ELSE /\ dataPacks' = IF tpe = "data" THEN dataPacks \cup {P} ELSE dataPacks
              /\ treePacks' = IF tpe = "tree" THEN treePacks \cup {P} ELSE treePacks
              /\ packWrites' = packWrites + 1
              /\ knownD' = IF tpe = "data" THEN knownD \cup Range(P) ELSE knownD
              /\ knownT' = IF tpe = "tree" THEN knownT \cup Range(P) ELSE knownT
              /\ IF IndexFull(n.d, n.t) /\ fOk
                   THEN /\ indexes' = indexes \cup {n}
                        /\ pendD' = {}
                        /\ pendT' = {}
                   ELSE /\ indexes' = indexes
                        /\ pendD' = n.d
                        /\ pendT' = n.t

\* ------------------------------------------------------------------- Init
pipeReset ==
    /\ pc = "pipeline"
    /\ srcPos = 1
    /\ cancelled = FALSE
    /\ curDir = 0
    /\ seqNext = 1
    /\ queue = <<>>
    /\ wk = [w \in Workers |-> IdleWorker]
    /\ results = {}
    /\ outNext = 1
    /\ rootList = <<>>
    /\ subList = <<>>
    /\ inSub = FALSE
    /\ subName = 0
    /\ dpOpen = <<>>
    /\ dpFailed = FALSE
    /\ tpOpen = <<>>
    /\ knownD = {}
    /\ knownT = {}
    /\ pendD = {}
    /\ pendT = {}
    /\ snapTree = <<>>
    /\ snapId = <<>>
    /\ retId = <<>>
    /\ hist = <<>>
    /\ emitted = <<>>
    /\ received = <<>>
    /\ srcSkipped = {}
    /\ parDropped = {}
    /\ readFailed = {}
    /\ packWrites = 0
    /\ wroteFail = FALSE
    /\ errSeqs = {}

\* --------------------------------------------------------------- Id (id.rs)
\* id.rs:12: HEX_LEN = LEN * 2
HEX_LEN == IdLen * 2

\* the digits the hex crate writes, and the upper-case ones it also reads
HexLower == <<"0", "1", "2", "3", "4", "5", "6", "7", "8", "9",
              "a", "b", "c", "d", "e", "f">>

HexUpper == <<"0", "1", "2", "3", "4", "5", "6", "7", "8", "9",
              "A", "B", "C", "D", "E", "F">>

\* hex::val: the value of a hex digit of either case, -1 for any other byte
Val(c) ==
    IF \E i \in 1..16 : HexLower[i] = c
      THEN (CHOOSE i \in 1..16 : HexLower[i] = c) - 1
    ELSE IF \E i \in 1..16 : HexUpper[i] = c
      THEN (CHOOSE i \in 1..16 : HexUpper[i] = c) - 1
    ELSE -1

\* Id::default(): all bytes zero
NullId == [i \in 1..IdLen |-> 0]

\* Mutant of DecodeLenOk: a string shorter than HEX_LEN fills the first
\* bytes of the Id only.
DecodeLenAtMost(n) == n \div 2 <= IdLen

\* hex::decode_to_slice: the string must have two digits per byte of the Id
DecodeLenOk(n) == n \div 2 = IdLen

\* Id::from_hex (id.rs:60-66): hex::decode_to_slice(s, &mut id.0) into a
\* default Id; its errors are returned as IdErrorKind::HexError.
FromHex(s) ==
    IF Len(s) % 2 # 0
      THEN [ok |-> FALSE, err |-> "OddLength", id |-> NullId]
    ELSE IF ~DecodeLenOk(Len(s))
      THEN [ok |-> FALSE, err |-> "InvalidStringLength", id |-> NullId]
    ELSE IF \E i \in 1..Len(s) : Val(s[i]) = -1
      THEN [ok |-> FALSE, err |-> "InvalidHexCharacter", id |-> NullId]
    ELSE [ok |-> TRUE, err |-> "",
          id |-> [i \in 1..IdLen |->
                    IF 2 * i <= Len(s)
                      THEN Val(s[2 * i - 1]) * 16 + Val(s[2 * i])
                      ELSE 0]]

\* Mutant of Digit: upper-case digits.
DigitUpper(n) == HexUpper[n + 1]

\* hex::encode_to_slice: the digit of a nibble, lower case
Digit(n) == HexLower[n + 1]

\* Id::to_hex (id.rs:88-93): two digits per byte, high nibble first
ToHex(id) ==
    [k \in 1..(2 * Len(id)) |->
        LET b == id[(k + 1) \div 2]
        IN IF k % 2 = 1 THEN Digit(b \div 16) ELSE Digit(b % 16)]

NoIdCall == [op |-> "none", arg |-> "", ok |-> TRUE, err |-> "", id |-> NullId, out |-> <<>>]

\* no call of from_hex or to_hex made
IdIdle ==
    /\ hs = <<>>
    /\ hx = NullId
    /\ hr = NoIdCall

\* ------------------------------------ ConfigFile (repofile/configfile.rs)
\* Option<i32>
None == <<>>

Some(x) == <<x>>

NoConfigCall == [op |-> "none", ok |-> TRUE, err |-> "", val |-> None]

\* Mutant of Zstd: version 1 is treated as version 2.
ZstdAnyVersion(version, compression) ==
    IF version \in {1, 2} /\ compression = Some(0)
      THEN [op |-> "zstd", ok |-> TRUE, err |-> "", val |-> None]
    ELSE IF version \in {1, 2} /\ compression = None
      THEN [op |-> "zstd", ok |-> TRUE, err |-> "", val |-> Some(0)]
    ELSE IF version \in {1, 2}
      THEN [op |-> "zstd", ok |-> TRUE, err |-> "", val |-> compression]
    ELSE [op |-> "zstd", ok |-> FALSE, err |-> "ConfigVersionNotSupported",
          val |-> None]

\* ConfigFile::zstd (configfile.rs:96-104): the match on (version,
\* compression), arm by arm.
Zstd(version, compression) ==
    IF version = 1 \/ (version = 2 /\ compression = Some(0))
      THEN [op |-> "zstd", ok |-> TRUE, err |-> "", val |-> None]
    ELSE IF version = 2 /\ compression = None
      THEN [op |-> "zstd", ok |-> TRUE, err |-> "", val |-> Some(0)]
    ELSE IF version = 2
      THEN [op |-> "zstd", ok |-> TRUE, err |-> "", val |-> compression]
    ELSE [op |-> "zstd", ok |-> FALSE, err |-> "ConfigVersionNotSupported",
          val |-> None]

\* ConfigFile::default(), no call made
ConfigIdle ==
    /\ cv = 0
    /\ cc = None
    /\ cr = NoConfigCall

\* ------------------------------------- IndexPack (repofile/indexfile.rs)
BlobTypes == {"data", "tree"}

\* IndexPack::default(): no blobs
NewIndexPack == <<>>

\* IndexPack::add (indexfile.rs:57-72): the IndexBlob is pushed as given
IndexPackAdd(blobs, id, tpe, offset, length) ==
    Append(blobs, [id |-> id, tpe |-> tpe, offset |-> offset, length |-> length])

\* IndexPack::blob_type (indexfile.rs:83-91)
BlobTypeOf(blobs) == IF blobs = <<>> THEN "data" ELSE blobs[1].tpe

\* a Packer for data blobs with an empty pack, blob_type not called
IndexIdle ==
    /\ pkT = "data"
    /\ pkSize = 0
    /\ ipBlobs = NewIndexPack
    /\ ipRes = "none"

\* ----------------------------- SnapshotFile (repofile/snapshotfile.rs)
\* DeleteOption (snapshotfile.rs:152-158)
NotSet == [k |-> "NotSet", t |-> 0]

Never == [k |-> "Never", t |-> 0]

After(t) == [k |-> "After", t |-> t]

\* StringList::contains (snapshotfile.rs:640-642); a string is a number,
\* in the order of the strings
SlContains(l, s) == \E i \in DOMAIN l : l[i] = s

\* StringList::add (snapshotfile.rs:656-660)
SlAdd(l, s) == IF SlContains(l, s) THEN l ELSE Append(l, s)

RECURSIVE SlAddList(_, _)
\* StringList::add_list (snapshotfile.rs:663-667)
SlAddList(l, sl) ==
    IF sl = <<>> THEN l ELSE SlAddList(SlAdd(l, Head(sl)), Tail(sl))

RECURSIVE SlAddAll(_, _)
\* StringList::add_all (snapshotfile.rs:670-674)
SlAddAll(l, string_lists) ==
    IF string_lists = <<>> THEN l
    ELSE SlAddAll(SlAddList(l, Head(string_lists)), Tail(string_lists))

RECURSIVE SlRemoveAll(_, _)
\* StringList::remove_all (snapshotfile.rs:691-694): retain the strings no
\* given list contains
SlRemoveAll(l, string_lists) ==
    IF l = <<>> THEN <<>>
    ELSE LET rest == SlRemoveAll(Tail(l), string_lists)
         IN IF \E i \in DOMAIN string_lists : SlContains(string_lists[i], Head(l))
              THEN rest
              ELSE <<Head(l)>> \o rest

RECURSIVE SlInsert(_, _)
SlInsert(l, s) ==
    IF l = <<>> THEN <<s>>
    ELSE IF s <= Head(l) THEN <<s>> \o l
    ELSE <<Head(l)>> \o SlInsert(Tail(l), s)

RECURSIVE SlSort(_)
\* StringList::sort (snapshotfile.rs:697-699)
SlSort(l) == IF l = <<>> THEN <<>> ELSE SlInsert(SlSort(Tail(l)), Head(l))

\* SnapshotFile::add_tags (snapshotfile.rs:426-432): the new tags and
\* whether they differ from the old ones
AddTags(tags, tag_lists) ==
    LET new == SlSort(SlAddAll(tags, tag_lists))
    IN [tags |-> new, changed |-> tags # new]

\* SnapshotFile::set_tags (snapshotfile.rs:435-441)
SetTags(tags, tag_lists) ==
    LET new == SlSort(SlAddAll(<<>>, tag_lists))
    IN [tags |-> new, changed |-> tags # new]

\* SnapshotFile::remove_tags (snapshotfile.rs:444-449)
RemoveTags(tags, tag_lists) ==
    LET new == SlRemoveAll(tags, tag_lists)
    IN [tags |-> new, changed |-> tags # new]

\* SnapshotFile::modify_sn (snapshotfile.rs:470-493): the snapshot after the
\* call and what is returned; delete is None or Some(DeleteOption)
ModifySn(s, set, add, remove, delete) ==
    LET a == IF set # <<>> THEN SetTags(s.tags, set)
                           ELSE [tags |-> s.tags, changed |-> FALSE]
        b == AddTags(a.tags, add)
        c == RemoveTags(b.tags, remove)
        d == delete # None /\ s.delete # delete[1]
        new == [tags |-> c.tags, delete |-> IF d THEN delete[1] ELSE s.delete]
    IN [sn |-> new,
        ret |-> IF a.changed \/ b.changed \/ c.changed \/ d THEN Some(new) ELSE None]

NoSnArgs == [set |-> <<>>, add |-> <<>>, remove |-> <<>>, delete |-> None, now |-> 0]

NoSnCall == [op |-> "none", before |-> [tags |-> <<>>, delete |-> NotSet],
             ret |-> None, del |-> FALSE, keep |-> FALSE]

\* SnapshotFile::default() as far as modelled, no call made
SnapIdle ==
    /\ sn = [tags |-> <<>>, delete |-> NotSet]
    /\ snArgs = NoSnArgs
    /\ snRes = NoSnCall

\* ------------------------------- init (commands/init.rs, commands/key.rs)
NoKeyOptions == [hostname |-> FALSE, username |-> FALSE, with_created |-> FALSE]

EmptyRepo == [dirs |-> FALSE, keys |-> {}, config |-> FALSE]

\* init not called, on a location that holds nothing
InitCmdIdle ==
    /\ inPc = "start"
    /\ inOpts = NoKeyOptions
    /\ inLog = <<>>
    /\ inRepo = EmptyRepo
    /\ inRet = "none"

\* ------------------------------------------------- SnapshotFile::latest
NoLatestCall == [op |-> "none", ok |-> TRUE, err |-> "", snap |-> None]

\* latest not called, no snapshot stored
LatestIdle ==
    /\ laStore = <<>>
    /\ laPos = 1
    /\ laLatest = None
    /\ laRes = NoLatestCall

\* PathList::merge not called
PathIdle == plIn = <<>> /\ plOut = None

\* ------------------------------------------------- IndexBlob
NoBlob == [id |-> 0, tpe |-> "data", offset |-> 0, length |-> 0,
           uncompressed_length |-> None]

NoCmp == [op |-> "none", cmp |-> "Equal", eq |-> TRUE]

\* no IndexBlob compared
BlobIdle == ibA = NoBlob /\ ibB = NoBlob /\ ibRes = NoCmp

\* ------------------------------------------------- list_with_size
NoListCall == [tpe |-> "config", ids |-> None, sized |-> None]

\* no file of 4 GiB or more, no list made
ListIdle == lsBig = {} /\ lsRes = NoListCall

\* ------------------------------------------------- the scope of archive
\* the threads of the scope before the first item, a source of n entries
ScopeStart(n) ==
    /\ scSrc = n
    /\ scIn = 0
    /\ scInTx = TRUE
    /\ scOut = 0
    /\ scOutRx = TRUE
    /\ scFlight = 0
    /\ scWk = [w \in 1..NumWorkers |-> "recv"]
    /\ scRa = "next"
    /\ scCons = "recv"
    /\ scRet = "none"
    /\ scSeen = FALSE

ScopeIdle == ScopeStart(0)

\* the snapshot file and the commands are not in use
MoreIdle == SnapIdle /\ InitCmdIdle /\ LatestIdle /\ PathIdle /\ BlobIdle /\ ListIdle /\ ScopeIdle

\* the parts other than the backup and the backend are not in use
OthersIdle == IdIdle /\ ConfigIdle /\ IndexIdle /\ MoreIdle

\* No write_bytes call in progress on an empty repository directory.
NoWb == [pc |-> "idle", tpe |-> "config", id |-> NullId, buf |-> <<>>, off |-> 0]

NoFile == [ex |-> FALSE, data |-> <<>>]

NoCall == [op |-> "none", tpe |-> "config", id |-> NullId, res |-> "none", hook |-> "none",
           opt |-> ""]

\* LocalBackend::new (local.rs:82-90): no hook command, no call made
LocalNew ==
    /\ wb = NoWb
    /\ wprev = NoFile
    /\ wend = "none"
    /\ ops = 0
    /\ cmds = [create |-> "none", delete |-> "none"]
    /\ last = NoCall
    /\ rprev = <<>>
    /\ clean = TRUE

LocalIdle ==
    /\ LocalNew
    /\ fs = <<>>
    /\ dirs = {}
    /\ okw = <<>>
    /\ okp = <<>>

\* The state after Archiver::new on an empty repository.
Init ==
    /\ LocalIdle
    /\ OthersIdle
    /\ phase = "A"
    /\ src \in Sources
    /\ srcLen = Len(src)
    /\ parent = <<>>
    /\ indexD = {}
    /\ indexT = {}
    /\ dataPacks = {}
    /\ treePacks = {}
    /\ indexes = {}
    /\ snaps = {}
    /\ treeA = <<>>
    /\ srcA = <<>>
    /\ snapIx = {}
    /\ pipeReset

\* --------------------------------------------- source, TreeIterator, Parent
pvars == <<phase, src, parent, indexD, indexT, snaps, snapTree, snapId, retId,
           treeA, srcA, snapIx>>

tvars == <<rootList, subList, inSub, subName, tpOpen>>

\* archiver.rs:124: parallel_map_scoped with the default buffer keeps at most
\* two items per worker thread between its input and its output.
BufferSize == 2 * NumWorkers

\* archiver.rs:125: readahead_scoped with the default buffer: a rendezvous
\* channel, which holds no item.
ReadaheadSize == 0

\* The items of parallel_map, the items of the readahead channel and the one
\* item the readahead thread holds while it waits for the consumer.
InFlightMax == BufferSize + ReadaheadSize + 1

\* items taken from the source that TreeArchiver has not yet received
InFlight == seqNext - outNext

CanPumpAlways == TRUE

\* archiver.rs:124-125: the source is pulled only while the buffers have room
CanPump == InFlight < InFlightMax

\* parallel_map (archiver.rs:124): the item gets the next index and waits
\* for a worker thread.
Emit(item) ==
    /\ CanPump
    /\ queue' = Append(queue, [seq |-> seqNext, item |-> item])
    /\ seqNext' = seqNext + 1
    /\ emitted' = Append(emitted, item)

\* archiver.rs:84-88: an Err item of the source is logged and dropped.
SourceErr ==
    /\ pc = "pipeline"
    /\ CanPump
    /\ srcPos <= srcLen
    /\ src[srcPos].k = "err"
    /\ srcPos' = srcPos + 1
    /\ srcSkipped' = srcSkipped \cup {srcPos}
    /\ UNCHANGED <<pvars, tvars, bvars, pc, srcLen, cancelled, curDir, seqNext,
                   queue, wk, results, outNext, dpOpen, dpFailed, hist, emitted,
                   received, parDropped, readFailed, wroteFail, errSeqs>>

\* TreeIterator: the next entry lies outside the open directory, or the
\* source has ended inside it: EndTree.  Parent.process passes it on.
EmitEndTree ==
    /\ pc = "pipeline"
    /\ curDir # 0
    /\ \/ srcPos > srcLen
       \/ /\ srcPos <= srcLen
          /\ src[srcPos].k # "err"
          /\ src[srcPos].p = 0
    /\ curDir' = 0
    /\ Emit([NoItem EXCEPT !.tt = "end"])
    /\ UNCHANGED <<pvars, tvars, bvars, pc, srcLen, srcPos, cancelled, wk,
                   results, outNext, dpOpen, dpFailed, hist, received,
                   srcSkipped, parDropped, readFailed, wroteFail, errSeqs>>

\* TreeIterator: a directory entry opens its directory: NewTree.
EmitNewTree ==
    /\ pc = "pipeline"
    /\ srcPos <= srcLen
    /\ src[srcPos].k = "dir"
    /\ curDir = 0
    /\ curDir' = srcPos
    /\ srcPos' = srcPos + 1
    /\ Emit([NoItem EXCEPT !.tt = "new", !.i = srcPos])
    /\ UNCHANGED <<pvars, tvars, bvars, pc, srcLen, cancelled, wk, results,
                   outNext, dpOpen, dpFailed, hist, received, srcSkipped,
                   parDropped, readFailed, wroteFail, errSeqs>>

IsNextFile ==
    /\ pc = "pipeline"
    /\ srcPos <= srcLen
    /\ src[srcPos].k = "file"
    /\ (src[srcPos].p = 0) = (curDir = 0)

\* archiver.rs:116-117: Parent.process returned Ok(item): the file entry
\* goes on, annotated Matched / Changed / New.
EmitOther ==
    /\ IsNextFile
    /\ srcPos' = srcPos + 1
    /\ LET r == ParentResult(srcPos)
       IN Emit([tt |-> "other", i |-> srcPos, par |-> r.par, pn |-> r.pn])
    /\ UNCHANGED <<pvars, tvars, bvars, pc, srcLen, cancelled, curDir, wk,
                   results, outNext, dpOpen, dpFailed, hist, received,
                   srcSkipped, parDropped, readFailed, wroteFail, errSeqs>>

\* archiver.rs:118-121: Parent.process returned Err (the parent snapshot
\* could not be read): the closure logs it and returns None, so filter_map
\* drops the entry.
ParentErrDrops(i) ==
    /\ srcPos' = srcPos + 1
    /\ parDropped' = parDropped \cup {i}
    /\ UNCHANGED <<seqNext, queue, emitted>>

ParentErr ==
    /\ IsNextFile
    /\ CanPump
    /\ parent # <<>>
    /\ ParentErrDrops(srcPos)
    /\ UNCHANGED <<pvars, tvars, bvars, pc, srcLen, cancelled, curDir, wk,
                   results, outNext, dpOpen, dpFailed, hist, received,
                   srcSkipped, readFailed, wroteFail, errSeqs>>

\* The caller ends the source iterator early: it yields no further entry.
SourceCancel ==
    /\ pc = "pipeline"
    /\ srcPos <= srcLen
    /\ srcLen' = srcPos - 1
    /\ cancelled' = TRUE
    /\ UNCHANGED <<pvars, tvars, bvars, pc, srcPos, curDir, seqNext, queue, wk,
                   results, outNext, dpOpen, dpFailed, hist, emitted, received,
                   srcSkipped, parDropped, readFailed, wroteFail, errSeqs>>

\* ------------------------------------------------- FileArchiver (workers)
svars == <<srcLen, srcPos, cancelled, curDir, seqNext, emitted, srcSkipped,
           parDropped>>

\* Mutant of Propagate: the result of indexer.finalize() is not checked.
PropagateNotIndex(s) == IF s = "ix_finalize" THEN "save" ELSE "done_err"

\* `?` (archiver.rs:135-147): an Err of the step makes archive return it.
Propagate(s) == "done_err"

\* Mutant of AfterErrResult: an Err result ends the backup.
AfterErrResultAbort == "done_err"

\* archiver.rs:126-131: the closure returns None for an Err result, so the
\* iteration goes on with the next result.
AfterErrResult == "pipeline"

Result(q, ok, node) == [seq |-> q.seq, ok |-> ok, item |-> q.item, node |-> node]

\* A worker thread of parallel_map takes the next waiting item and starts
\* file_archiver.process on it.  Directories pass through; a Matched file
\* keeps the parent's content list and is not read; any other file is
\* opened (which fails for an unreadable file) and then chunked.  The
\* threads are interchangeable: the lowest-numbered idle one stands for any.
WorkerTake(w) ==
    /\ pc = "pipeline"
    /\ wk[w].st = "idle"
    /\ \A v \in Workers : v < w => wk[v].st # "idle"
    /\ queue # <<>>
    /\ LET q  == Head(queue)
           it == q.item
       IN /\ queue' = Tail(queue)
          /\ IF it.tt # "other"
               THEN /\ results' = results \cup {Result(q, TRUE, NoNode)}
                    /\ UNCHANGED <<wk, readFailed>>
             ELSE IF it.par = "matched"
               THEN /\ results' = results \cup
                          {Result(q, TRUE, FileNode(it.i, it.pn, src[it.i].m))}
                    /\ UNCHANGED <<wk, readFailed>>
             ELSE IF ~src[it.i].r
               THEN /\ results' = results \cup {Result(q, FALSE, NoNode)}
                    /\ readFailed' = readFailed \cup {it.i}
                    /\ UNCHANGED wk
             ELSE /\ wk' = [wk EXCEPT ![w] =
                              [st |-> "busy", seq |-> q.seq, item |-> it,
                               pos |-> 1, pk |-> <<>>]]
                  /\ UNCHANGED <<results, readFailed>>
    /\ UNCHANGED <<pvars, tvars, bvars, svars, pc, outNext, dpOpen, dpFailed,
                   hist, received, wroteFail, errSeqs>>

\* The worker's file is chunked to the end: process returns the Node.
WorkerDone(w, wr) ==
    IF wr.pos > Len(src[wr.item.i].c)
      THEN /\ wk' = [wk EXCEPT ![w] = IdleWorker]
           /\ results' = results \cup
                 {Result(wr, TRUE,
                         FileNode(wr.item.i, src[wr.item.i].c, src[wr.item.i].m))}
      ELSE /\ wk' = [wk EXCEPT ![w] = wr]
           /\ UNCHANGED results

\* process fails: the worker returns Err for its item.
WorkerErr(w) ==
    /\ wk' = [wk EXCEPT ![w] = IdleWorker]
    /\ results' = results \cup {Result(wk[w], FALSE, NoNode)}

\* The next chunk of the worker's file goes to the data Packer's add-blob:
\* a known blob is skipped; a new one is appended to the pack being filled,
\* and a pack that reaches its target is rotated out for finalization by
\* this worker while the others go on with a fresh pack.
WorkerChunk(w) ==
    /\ pc = "pipeline"
    /\ wk[w].st = "busy"
    /\ LET wr == wk[w]
           id == src[wr.item.i].c[wr.pos]
           nx == [wr EXCEPT !.pos = wr.pos + 1]
       IN IF HasData(id)
            THEN /\ WorkerDone(w, nx)
                 /\ UNCHANGED dpOpen
          ELSE IF dpFailed
            THEN /\ WorkerErr(w)
                 /\ UNCHANGED dpOpen
          ELSE IF Len(dpOpen) + 1 >= PackTarget
            THEN /\ dpOpen' = <<>>
                 /\ wk' = [wk EXCEPT ![w] =
                             [nx EXCEPT !.st = "write", !.pk = Append(dpOpen, id)]]
                 /\ UNCHANGED results
          ELSE /\ dpOpen' = Append(dpOpen, id)
               /\ WorkerDone(w, nx)
    /\ UNCHANGED <<pvars, tvars, bvars, svars, pc, queue, outNext, dpFailed,
                   hist, received, readFailed, wroteFail, errSeqs>>

\* Pack finalization by the worker that filled the pack.  A failed backend
\* write makes process return the error and leaves the data Packer failed.
WorkerWritePack(w) ==
    /\ pc = "pipeline"
    /\ wk[w].st = "write"
    /\ \E wOk, fOk \in BOOLEAN :
          /\ Publish("data", wk[w].pk, wOk, fOk)
          /\ IF PublishOk("data", wk[w].pk, wOk, fOk)
               THEN /\ WorkerDone(w, [wk[w] EXCEPT !.st = "busy", !.pk = <<>>])
                    /\ UNCHANGED <<dpFailed, wroteFail>>
               ELSE /\ WorkerErr(w)
                    /\ dpFailed' = TRUE
                    /\ wroteFail' = TRUE
    /\ UNCHANGED <<pvars, tvars, svars, pc, queue, outNext, dpOpen, hist,
                   received, readFailed, errSeqs>>

\* ------------------------------------------------ consumer / TreeArchiver
\* Mutant of IsNextResult: results handed on as the workers finish them.
IsAnyResult(r) == TRUE

\* parallel_map_scoped + readahead_scoped (archiver.rs:124-125) hand the
\* results on in the order of the items they were computed from.
IsNextResult(r) == r.seq = outNext

\* archiver.rs:126-131: an Err result is logged and dropped.
ConsumerSkip ==
    /\ pc = "pipeline"
    /\ \E r \in results :
          /\ IsNextResult(r)
          /\ ~r.ok
          /\ results' = results \ {r}
    /\ errSeqs' = errSeqs \cup {outNext}
    /\ outNext' = outNext + 1
    /\ pc' = AfterErrResult
    /\ UNCHANGED <<pvars, tvars, bvars, svars, queue, wk, dpOpen, dpFailed,
                   hist, received, readFailed, wroteFail>>

\* tree Packer add-blob for the tree T, called by the consumer thread.
TreeAddOk(T, wOk, fOk) ==
    \/ HasTree(T)
    \/ Len(tpOpen) + 1 < PackTarget
    \/ PublishOk("tree", Append(tpOpen, T), wOk, fOk)

TreeAdd(T, wOk, fOk) ==
    IF HasTree(T)
      THEN UNCHANGED <<tpOpen, bvars>>
    ELSE IF Len(tpOpen) + 1 < PackTarget
      THEN /\ tpOpen' = Append(tpOpen, T)
           /\ UNCHANGED bvars
    ELSE /\ tpOpen' = <<>>
         /\ Publish("tree", Append(tpOpen, T), wOk, fOk)

\* archiver.rs:133-135: tree_archiver.add(item) for the next Ok result; an
\* Err of add ends try_for_each and archive returns it.
ConsumerAdd ==
    /\ pc = "pipeline"
    /\ \E r \in results :
          /\ IsNextResult(r)
          /\ r.ok
          /\ results' = results \ {r}
          /\ received' = Append(received, r.seq)
          /\ \/ /\ r.item.tt = "new"
                /\ inSub' = TRUE
                /\ subName' = r.item.i
                /\ subList' = <<>>
                /\ UNCHANGED <<rootList, tpOpen, bvars, pc, wroteFail>>
             \/ /\ r.item.tt = "other"
                /\ IF inSub
                     THEN /\ subList' = Append(subList, r.node)
                          /\ UNCHANGED rootList
                     ELSE /\ rootList' = Append(rootList, r.node)
                          /\ UNCHANGED subList
                /\ UNCHANGED <<inSub, subName, tpOpen, bvars, pc, wroteFail>>
             \/ /\ r.item.tt = "end"
                /\ \E wOk, fOk \in BOOLEAN :
                      /\ TreeAdd(subList, wOk, fOk)
                      /\ IF TreeAddOk(subList, wOk, fOk)
                           THEN UNCHANGED <<pc, wroteFail>>
                           ELSE /\ pc' = Propagate(pc)
                                /\ wroteFail' = TRUE
                /\ rootList' = Append(rootList, DirNode(subName, subList))
                /\ inSub' = FALSE
                /\ subList' = <<>>
                /\ UNCHANGED subName
    /\ outNext' = outNext + 1
    /\ UNCHANGED <<pvars, svars, queue, wk, dpOpen, dpFailed, hist, readFailed,
                   errSeqs>>

\* The pipeline has handed on its last item: the scope ends with Ok.
PipelineEnd ==
    /\ pc = "pipeline"
    /\ srcPos > srcLen
    /\ curDir = 0
    /\ outNext = seqNext
    /\ pc' = "fa_finalize"
    /\ UNCHANGED <<pvars, tvars, bvars, svars, queue, wk, results, outNext,
                   dpOpen, dpFailed, hist, received, readFailed, wroteFail, errSeqs>>

\* ------------------------------------------------- after the pipeline
\* Mutants of NextStage: the snapshot saved before the index is finalized;
\* the index never finalized; archive returning without saving.
NextStageSaveFirst(s) ==
    CASE s = "fa_finalize" -> "ta_finalize"
      [] s = "ta_finalize" -> "save"
      [] s = "save"        -> "ix_finalize"
      [] s = "ix_finalize" -> "stamp"
      [] s = "stamp"       -> "done_ok"

NextStageNoIndex(s) ==
    CASE s = "fa_finalize" -> "ta_finalize"
      [] s = "ta_finalize" -> "save"
      [] s = "ix_finalize" -> "save"
      [] s = "save"        -> "stamp"
      [] s = "stamp"       -> "done_ok"

NextStageNoSave(s) ==
    CASE s = "fa_finalize" -> "ta_finalize"
      [] s = "ta_finalize" -> "ix_finalize"
      [] s = "ix_finalize" -> "done_ok"
      [] s = "save"        -> "stamp"
      [] s = "stamp"       -> "done_ok"

\* The order of the statements of archive after the scope
\* (archiver.rs:137-151).
NextStage(s) ==
    CASE s = "fa_finalize" -> "ta_finalize"
      [] s = "ta_finalize" -> "ix_finalize"
      [] s = "ix_finalize" -> "save"
      [] s = "save"        -> "stamp"
      [] s = "stamp"       -> "done_ok"

qvars == <<queue, wk, results, outNext, received, readFailed, errSeqs>>

\* archiver.rs:137: file_archiver.finalize()?  The data Packer reports a
\* failed pack write, or finalizes the pack being filled.
FileArchiverFinalize ==
    /\ pc = "fa_finalize"
    /\ IF dpFailed
         THEN /\ pc' = Propagate(pc)
              /\ UNCHANGED <<bvars, dpOpen, wroteFail, hist>>
       ELSE IF dpOpen = <<>>
         THEN /\ pc' = NextStage(pc)
              /\ hist' = Append(hist, "files")
              /\ UNCHANGED <<bvars, dpOpen, wroteFail>>
       ELSE \E wOk, fOk \in BOOLEAN :
              /\ Publish("data", dpOpen, wOk, fOk)
              /\ dpOpen' = <<>>
              /\ IF PublishOk("data", dpOpen, wOk, fOk)
                   THEN /\ pc' = NextStage(pc)
                        /\ hist' = Append(hist, "files")
                        /\ UNCHANGED wroteFail
                   ELSE /\ pc' = Propagate(pc)
                        /\ wroteFail' = TRUE
                        /\ UNCHANGED hist
    /\ UNCHANGED <<pvars, tvars, svars, qvars, dpFailed>>

\* archiver.rs:138-140: tree_archiver.finalize(parent_tree)? serializes the
\* root tree, adds it to the tree Packer and finalizes that Packer; the
\* returned id becomes snap.tree.
TreeArchiverFinalize ==
    /\ pc = "ta_finalize"
    /\ LET T    == rootList
           open == IF HasTree(T) THEN tpOpen ELSE Append(tpOpen, T)
       IN IF open = <<>>
            THEN /\ pc' = NextStage(pc)
                 /\ snapTree' = T
                 /\ hist' = Append(hist, "tree")
                 /\ UNCHANGED <<bvars, tpOpen, wroteFail>>
            ELSE \E wOk, fOk \in BOOLEAN :
                   /\ Publish("tree", open, wOk, fOk)
                   /\ tpOpen' = <<>>
                   /\ IF PublishOk("tree", open, wOk, fOk)
                        THEN /\ pc' = NextStage(pc)
                             /\ snapTree' = T
                             /\ hist' = Append(hist, "tree")
                             /\ UNCHANGED wroteFail
                        ELSE /\ pc' = Propagate(pc)
                             /\ wroteFail' = TRUE
                             /\ UNCHANGED <<snapTree, hist>>
    /\ UNCHANGED <<phase, src, parent, indexD, indexT, snaps, snapId, retId,
                   treeA, srcA, snapIx, rootList, subList, inSub, subName,
                   svars, qvars, dpOpen, dpFailed>>

\* archiver.rs:142: indexer.finalize()? writes the index packs not yet
\* flushed as an index file.
IndexerFinalize ==
    /\ pc = "ix_finalize"
    /\ IF pendD = {} /\ pendT = {}
         THEN /\ pc' = NextStage(pc)
              /\ hist' = Append(hist, "index")
              /\ UNCHANGED <<indexes, pendD, pendT, wroteFail>>
         ELSE \E fOk \in BOOLEAN :
                IF fOk
                  THEN /\ indexes' = indexes \cup {[d |-> pendD, t |-> pendT]}
                       /\ pendD' = {}
                       /\ pendT' = {}
                       /\ pc' = NextStage(pc)
                       /\ hist' = Append(hist, "index")
                       /\ UNCHANGED wroteFail
                  ELSE /\ pc' = Propagate(pc)
                       /\ wroteFail' = TRUE
                       /\ UNCHANGED <<indexes, pendD, pendT, hist>>
    /\ UNCHANGED <<pvars, tvars, svars, qvars, dpOpen, dpFailed, dataPacks,
                   treePacks, knownD, knownT, packWrites>>

\* The snapshot file of the run; its id is the hash of its content.
SnapFile == [tree |-> snapTree, run |-> phase]

\* archiver.rs:147: let id = self.be.save_file(&self.snap)?
SaveSnapshot ==
    /\ pc = "save"
    /\ \E ok \in BOOLEAN :
          IF ok
            THEN /\ snaps' = snaps \cup {SnapFile}
                 /\ retId' = <<SnapFile>>
                 /\ snapIx' = snapIx \cup {[snap |-> SnapFile, ix |-> indexes]}
                 /\ pc' = NextStage(pc)
                 /\ hist' = Append(hist, "save")
                 /\ UNCHANGED wroteFail
            ELSE /\ pc' = Propagate(pc)
                 /\ wroteFail' = TRUE
                 /\ UNCHANGED <<snaps, retId, snapIx, hist>>
    /\ UNCHANGED <<phase, src, parent, indexD, indexT, snapTree, snapId, treeA,
                   srcA, tvars, bvars, svars, qvars, dpOpen, dpFailed>>

\* archiver.rs:148-151: self.snap.id = id; Ok(self.snap)
StampId ==
    /\ pc = "stamp"
    /\ snapId' = retId
    /\ pc' = NextStage(pc)
    /\ hist' = Append(hist, "stamp")
    /\ UNCHANGED <<phase, src, parent, indexD, indexT, snaps, snapTree, retId,
                   treeA, srcA, snapIx, tvars, bvars, svars, qvars, dpOpen,
                   dpFailed, wroteFail>>

\* ------------------------------------------------------- the next backup
pipeResetNext ==
    /\ pc' = "pipeline"
    /\ srcPos' = 1
    /\ cancelled' = FALSE
    /\ curDir' = 0
    /\ seqNext' = 1
    /\ queue' = <<>>
    /\ wk' = [w \in Workers |-> IdleWorker]
    /\ results' = {}
    /\ outNext' = 1
    /\ rootList' = <<>>
    /\ subList' = <<>>
    /\ inSub' = FALSE
    /\ subName' = 0
    /\ dpOpen' = <<>>
    /\ dpFailed' = FALSE
    /\ tpOpen' = <<>>
    /\ knownD' = {}
    /\ knownT' = {}
    /\ pendD' = {}
    /\ pendT' = {}
    /\ snapTree' = <<>>
    /\ snapId' = <<>>
    /\ retId' = <<>>
    /\ hist' = <<>>
    /\ emitted' = <<>>
    /\ received' = <<>>
    /\ srcSkipped' = {}
    /\ parDropped' = {}
    /\ readFailed' = {}
    /\ packWrites' = 0
    /\ wroteFail' = FALSE
    /\ errSeqs' = {}

\* The blobs listed by the index files of the backend.
IndexedData(ixs) == UNION {Range(P) : P \in UNION {ix.d : ix \in ixs}}

IndexedTrees(ixs) == UNION {Range(P) : P \in UNION {ix.t : ix \in ixs}}

\* Archiver::new for the backup after the first one (archiver.rs:37-62):
\* the index is the one loaded from the backend, the parent tree is none
\* or the tree of a stored snapshot.
StartB ==
    /\ phase = "A"
    /\ pc \in {"done_ok", "done_err"}
    /\ phase' = "B"
    /\ src' \in Edits(src)
    /\ srcLen' = Len(src')
    /\ parent' \in {<<>>} \cup {<<s.tree>> : s \in snaps}
    /\ indexD' = IndexedData(indexes)
    /\ indexT' = IndexedTrees(indexes)
    /\ treeA' = snapTree
    /\ srcA' = SubSeq(src, 1, srcLen)
    /\ pipeResetNext
    /\ UNCHANGED <<dataPacks, treePacks, indexes, snaps, snapIx>>

\* every step of a backup leaves the backend model of the second part alone
Next ==
    \/ SourceErr /\ UNCHANGED <<lvars, fvars>>
    \/ EmitEndTree /\ UNCHANGED <<lvars, fvars>>
    \/ EmitNewTree /\ UNCHANGED <<lvars, fvars>>
    \/ EmitOther /\ UNCHANGED <<lvars, fvars>>
    \/ ParentErr /\ UNCHANGED <<lvars, fvars>>
    \/ SourceCancel /\ UNCHANGED <<lvars, fvars>>
    \/ (\E w \in Workers : WorkerTake(w)) /\ UNCHANGED <<lvars, fvars>>
    \/ (\E w \in Workers : WorkerChunk(w)) /\ UNCHANGED <<lvars, fvars>>
    \/ (\E w \in Workers : WorkerWritePack(w)) /\ UNCHANGED <<lvars, fvars>>
    \/ ConsumerSkip /\ UNCHANGED <<lvars, fvars>>
    \/ ConsumerAdd /\ UNCHANGED <<lvars, fvars>>
    \/ PipelineEnd /\ UNCHANGED <<lvars, fvars>>
    \/ FileArchiverFinalize /\ UNCHANGED <<lvars, fvars>>
    \/ TreeArchiverFinalize /\ UNCHANGED <<lvars, fvars>>
    \/ IndexerFinalize /\ UNCHANGED <<lvars, fvars>>
    \/ SaveSnapshot /\ UNCHANGED <<lvars, fvars>>
    \/ StampId /\ UNCHANGED <<lvars, fvars>>
    \/ StartB /\ UNCHANGED <<lvars, fvars>>

Spec == Init /\ [][Next]_vars

\* ------------------------------------------------ a source longer than the
\* buffers of the pipeline
LongLen == InFlightMax + 2

\* an Err item, a file, a directory and its files, of which every second
\* one cannot be read
LongSource ==
    [i \in 1..LongLen |->
        IF i = 1 THEN ErrEntry
        ELSE IF i = 2 THEN FileEntry(0, <<1>>, TRUE)
        ELSE IF i = 3 THEN DirEntry
        ELSE FileEntry(1, <<1>>, i % 2 = 0)]

\* Archiver::new on an empty repository, for the long source.
InitLong ==
    /\ LocalIdle
    /\ OthersIdle
    /\ phase = "A"
    /\ src = LongSource
    /\ srcLen = Len(src)
    /\ parent = <<>>
    /\ indexD = {}
    /\ indexT = {}
    /\ dataPacks = {}
    /\ treePacks = {}
    /\ indexes = {}
    /\ snaps = {}
    /\ treeA = <<>>
    /\ srcA = <<>>
    /\ snapIx = {}
    /\ pipeReset

SpecLong == InitLong /\ [][Next]_vars

\* the items held by the stages between the source and TreeArchiver
Held ==
    Len(queue) + Cardinality({w \in Workers : wk[w].st # "idle"})
        + Cardinality(results)

\* C15: the number of entries taken from the source and not yet consumed by
\* TreeArchiver never exceeds a constant made of the worker count and the
\* capacities of the queue and of the readahead; these entries are the ones
\* the queue, the workers and the result buffer hold.
C15_InFlightBounded ==
    pc = "pipeline" =>
       /\ InFlight <= InFlightMax
       /\ Held = InFlight

\* the buffers are full while the source has more entries: the pump waits
C15_Witness ==
    /\ pc = "pipeline"
    /\ InFlight = InFlightMax
    /\ srcPos <= srcLen
    /\ ~cancelled

TypeOK == pc \in {"pipeline", "fa_finalize", "ta_finalize", "ix_finalize",
                  "save", "stamp", "done_ok", "done_err"}

\* =================================================================== claims
StageOrder == <<"files", "tree", "index", "save", "stamp">>

IsPrefix(s, u) == Len(s) <= Len(u) /\ \A i \in DOMAIN s : s[i] = u[i]

RunSnapshots == {s \in snaps : s.run = phase}

Terminated == pc \in {"done_ok", "done_err"}

\* C1: in every run of archive the steps complete in the order root tree
\* written -> Indexer.finalize -> snapshot file saved; the snapshot file of
\* the run is in the backend only after both finalize steps completed; and
\* snap.id is set only after the save, to the id the save returned.
C1_SnapshotLifecycle ==
    /\ IsPrefix(hist, StageOrder)
    /\ RunSnapshots # {} <=> Len(hist) >= 4
    /\ snapId # <<>> =>
          /\ Len(hist) = 5
          /\ snapId = retId
          /\ retId = <<SnapFile>>
          /\ SnapFile \in snaps

C1_Witness == phase = "B" /\ pc = "done_ok" /\ snapId # <<>> /\ packWrites > 0

\* The blobs a tree reaches are listed by the index files ixs: the tree
\* blob itself, the data blobs of its file nodes, and the same for the
\* sub-tree of each directory node.
RECURSIVE TreeIndexed(_, _)
TreeIndexed(T, ixs) ==
    /\ T \in IndexedTrees(ixs)
    /\ \A j \in DOMAIN T :
          IF T[j].t = "dir"
            THEN TreeIndexed(T[j].sub, ixs)
            ELSE \A id \in Range(T[j].c) : id \in IndexedData(ixs)

\* C2: whenever a snapshot file is in the backend, every blob reachable
\* from its tree is listed in an index file that was in the backend when
\* the snapshot file was written (and still is), also after runs that
\* skipped entries and for content reused from the parent snapshot.
C2_SnapshotBlobsIndexed ==
    /\ \A s \in snaps : \E x \in snapIx : x.snap = s
    /\ \A x \in snapIx :
          /\ x.ix \subseteq indexes
          /\ TreeIndexed(x.snap.tree, x.ix)

C2_Witness ==
    /\ phase = "B"
    /\ pc = "done_ok"
    /\ parent # <<>>
    /\ \E k \in DOMAIN emitted : emitted[k].par = "matched"
    /\ readFailed \cup parDropped # {}

\* C3: for successive backups A then B of the same unchanged source, B
\* with A's tree as parent, B writes no pack file and B's root tree id
\* equals A's.
C3_UnchangedRebackup ==
    (/\ phase = "B"
     /\ pc = "done_ok"
     /\ parent = <<treeA>>
     /\ ~cancelled
     /\ src = srcA)
        => (packWrites = 0 /\ snapTree = treeA)

\* The same, for the runs of B in which no parent lookup failed.
C3_WithoutParentErr == parDropped = {} => C3_UnchangedRebackup

\* The file nodes the TreeArchiver holds.
SubNodes == UNION {Range(rootList[j].sub) :
                     j \in {h \in DOMAIN rootList : rootList[h].t = "dir"}}

FileNodes == {n \in Range(rootList) \cup Range(subList) \cup SubNodes : n.t = "file"}

Archived == {n.n : n \in FileNodes}

\* C4: within one backup run, under every interleaving of the workers,
\* each data blob id is stored in the packs at most once, and the Nodes of
\* files with identical content carry the same content id list.
C4_BlobStoredOnce ==
    phase = "A" =>
       /\ \A P, Q \in dataPacks : \A i \in DOMAIN P, j \in DOMAIN Q :
             P[i] = Q[j] => (P = Q /\ i = j)
       /\ \A a, b \in FileNodes :
             src[a.n].c = src[b.n].c => a.c = b.c

\* increasing sequence of the members of the set S of naturals below n
RECURSIVE Ascending(_, _)
Ascending(S, n) ==
    IF n = 0 THEN <<>>
    ELSE IF n \in S THEN Append(Ascending(S, n - 1), n)
    ELSE Ascending(S, n - 1)

\* C5: tree_archiver.add receives the items in exactly the order in which
\* TreeIterator/Parent produced them, whatever the workers' completion
\* order; items dropped for an error leave the order of the rest untouched.
C5_TreeArchiverOrder ==
    /\ received = Ascending((1..(outNext - 1)) \ errSeqs, outNext - 1)
    /\ \A r \in results : r.item = emitted[r.seq]

\* a later item is finished while an earlier one is still being processed,
\* after the TreeArchiver has received an item
C5_Witness ==
    /\ received # <<>>
    /\ \E r \in results : r.seq > outNext
    /\ \E w \in Workers : wk[w].st # "idle" /\ wk[w].seq = outNext

FilesYielded == {i \in 1..srcLen : src[i].k = "file"}

\* C7: when reading a source file fails (an Err item of the source, or
\* process failing on an unreadable file), that entry alone is skipped:
\* with no backend write failure the run ends with the snapshot written,
\* and its tree holds every file entry the source yielded except those
\* whose read failed.
C7_OnlyFailedEntryOmitted ==
    (Terminated /\ ~wroteFail /\ (readFailed \cup srcSkipped) # {}) =>
       /\ pc = "done_ok"
       /\ SnapFile \in snaps
       /\ snapTree = rootList
       /\ Archived = FilesYielded \ readFailed

\* The same for the entries that passed the parent stage: the read failures
\* are exactly the Err items and the unreadable files a worker had to
\* read, and the tree omits, of the entries the parent stage passed on,
\* only those.
C7_ReadErrorSkipsEntry ==
    /\ srcSkipped = {i \in 1..(srcPos - 1) : i <= srcLen /\ src[i].k = "err"}
    /\ \A i \in readFailed : ~src[i].r
    /\ (Terminated /\ ~wroteFail) =>
          /\ pc = "done_ok"
          /\ SnapFile \in snaps
          /\ snapTree = rootList
          /\ Archived = (FilesYielded \ parDropped) \ readFailed
          /\ \A i \in FilesYielded \ parDropped :
                i \in readFailed <=>
                   (~src[i].r /\ \E k \in DOMAIN emitted :
                       emitted[k].i = i /\ emitted[k].par # "matched")

C7_Witness ==
    /\ pc = "done_ok"
    /\ readFailed # {}
    /\ Archived # {}

\* C8: when the parent lookup for an entry fails, the entry is treated as
\* New and passed on to the FileArchiver and the TreeArchiver.
C8_ParentErrorIsNew ==
    \A i \in parDropped :
       \E k \in DOMAIN emitted :
          emitted[k].tt = "other" /\ emitted[k].i = i /\ emitted[k].par = "new"

LTypes == {"config", "pack", "snapshot"}

\* the ids of the files: one per data subdirectory "ab" and "cd"
IdA == [i \in 1..IdLen |-> 171]

IdB == [i \in 1..IdLen |-> 205]

LIds == {IdA, IdB}

\* the (type, id) of the calls
LKeys == {<<"config", IdA>>, <<"config", IdB>>, <<"pack", IdA>>,
          <<"pack", IdB>>, <<"snapshot", IdA>>}

\* the buffers written: 1,2,1,.. of every length up to MaxLen, so that a
\* byte tells its offset and 0 is never a written byte
LBufs == {[i \in 1..n |-> 2 - (i % 2)] : n \in 0..MaxLen}

\* tpe.to_string(): the directory of a file type (local.rs:41-56)
TypeDir(tpe) ==
    CASE tpe = "config"   -> "config"
      [] tpe = "pack"     -> "data"
      [] tpe = "snapshot" -> "snapshots"
      [] tpe = "index"    -> "index"
      [] tpe = "key"      -> "keys"

\* every FileType
AllTypes == {"config", "pack", "snapshot", "index", "key"}

\* PathBuf::join: a path is the sequence of its names and characters, "/"
\* before each component; the repository root is the empty path
Join(dir, name) == dir \o <<"/">> \o name

Root == <<>>

LastSlash(p) == CHOOSE i \in 1..Len(p) : p[i] = "/" /\ \A j \in (i + 1)..Len(p) : p[j] # "/"

\* the directory a path lies in, and its file name
DirOf(p) == SubSeq(p, 1, LastSlash(p) - 1)

FileName(p) == SubSeq(p, LastSlash(p) + 1, Len(p))

\* Mutant of Path: every file of a type at one path.
PathNoId(tpe, id) == Join(Root, <<TypeDir(tpe)>>)

\* LocalBackend::path (local.rs:104-111), below the repository root
Path(tpe, id) ==
    LET hex_id == ToHex(id)
    IN CASE tpe = "config" -> Join(Root, <<"config">>)
         [] tpe = "pack"   -> Join(Join(Join(Root, <<"data">>), SubSeq(hex_id, 1, 2)), hex_id)
         [] OTHER          -> Join(Join(Root, <<TypeDir(tpe)>>), hex_id)

\* the directories create makes (local.rs:338-345), in the order it makes
\* them: one per file type but Config, then the data subdirectories
\* hex::encode([i]) (of the 256, those the ids of the model fall into)
CreateOrder ==
    <<Join(Root, <<TypeDir("snapshot")>>),
      Join(Root, <<TypeDir("pack")>>),
      Join(Join(Root, <<"data">>), ToHex(<<171>>)),
      Join(Join(Root, <<"data">>), ToHex(<<205>>))>>

AllDirs == {CreateOrder[i] : i \in DOMAIN CreateOrder}

\* a file can be created in the root, or in a directory that exists
DirExists(d) == d = Root \/ d \in dirs

\* the path p lies in the directory d or below it
IsUnder(d, p) == Len(p) > Len(d) + 1 /\ SubSeq(p, 1, Len(d) + 1) = d \o <<"/">>

\* Mutant of SetLen: the file is extended but never truncated.
SetLenGrow(data, n) ==
    [i \in 1..(IF n > Len(data) THEN n ELSE Len(data)) |->
        IF i <= Len(data) THEN data[i] ELSE 0]

\* File::set_len: truncate, or extend with zero bytes
SetLen(data, n) ==
    [i \in 1..n |-> IF i <= Len(data) THEN data[i] ELSE 0]

\* LocalBackend::read_full (local.rs:303-308): fs::read of the path
ReadFull(tpe, id) ==
    IF Path(tpe, id) \in DOMAIN fs
      THEN [ok |-> TRUE, data |-> fs[Path(tpe, id)]]
      ELSE [ok |-> FALSE, data |-> <<>>]

\* LocalBackend::read_partial (local.rs:310-331): File::open, seek to the
\* offset (also beyond the end), read_exact of length bytes, which fails
\* when fewer bytes are left and reads nothing for length 0.
ReadExact(data, offset, length) ==
    LET left == IF offset < Len(data) THEN Len(data) - offset ELSE 0
    IN IF length <= left
         THEN [ok |-> TRUE, data |-> SubSeq(data, offset + 1, offset + length)]
         ELSE [ok |-> FALSE, data |-> <<>>]

ReadPartialAt(p, offset, length) ==
    IF p \notin DOMAIN fs
      THEN [ok |-> FALSE, data |-> <<>>]
      ELSE ReadExact(fs[p], offset, length)

\* read_partial of the file at self.path(tpe, id) (local.rs:319)
ReadPartial(tpe, id, offset, length) ==
    ReadPartialAt(Path(tpe, id), offset, length)

\* Mutant of Walked: the files directly in the directory only.
WalkedFlat(d) == {p \in DOMAIN fs : DirOf(p) = d}

\* WalkDir::new(d) filtered to files: every file in d or below it
Walked(d) == {p \in DOMAIN fs : IsUnder(d, p)}

\* the ids Id::from_hex reads from the file names, one per file whose name
\* is an id (local.rs:227-228), in the order the walk yields them
RECURSIVE WalkIds(_)
WalkIds(S) ==
    IF S = {} THEN <<>>
    ELSE LET p == CHOOSE q \in S : TRUE
             r == FromHex(FileName(p))
         IN (IF r.ok THEN <<r.id>> ELSE <<>>) \o WalkIds(S \ {p})

\* LocalBackend::list (local.rs:213-230)
List(tpe) ==
    IF tpe = "config"
      THEN IF Join(Root, <<"config">>) \in DOMAIN fs THEN <<NullId>> ELSE <<>>
      ELSE WalkIds(Walked(Join(Root, <<TypeDir(tpe)>>)))

WbIdle == [wb EXCEPT !.pc = "idle"]

\* f without the argument x
Without(f, x) == [y \in (DOMAIN f) \ {x} |-> f[y]]

\* f with the value v at x
With(f, x, v) == [y \in (DOMAIN f) \cup {x} |-> IF y = x THEN v ELSE f[y]]

\* the backend is idle and the process alive: a call can be made
CanCall == wb.pc = "idle" /\ wend # "crash" /\ ops < MaxOps

\* a call other than write_bytes leaves no write_bytes record behind
WbForget == wb' = NoWb /\ wprev' = NoFile /\ wend' = "none"

\* call_command (local.rs:132-156) of a hook command: not run when the
\* option is unset; else it runs and succeeds or fails
HookOutcomes(cmd) == IF cmd = "none" THEN {"none"} ELSE {"ok", "failed"}

\* Mutant of AfterHook: the error of the hook is returned.
AfterHookPropagate(h) == IF h = "failed" THEN "err" ELSE "ok"

\* local.rs:373-378, 385-390: an Err of call_command (the command cannot be
\* parsed, cannot be run, or exits with a failure status) is logged with
\* warn!, and Ok(()) is returned whatever the hook did
AfterHook(h) == "ok"

\* LocalBackend::set_option (local.rs:185-198)
SetOption(option, value) ==
    /\ CanCall
    /\ ops' = ops + 1
    /\ cmds' = CASE option = "post-create-command" -> [cmds EXCEPT !.create = value]
                 [] option = "post-delete-command" -> [cmds EXCEPT !.delete = value]
                 [] OTHER -> cmds
    /\ last' = [NoCall EXCEPT !.op = "set_option", !.opt = option, !.res = "ok"]
    /\ rprev' = <<>>
    /\ WbForget
    /\ UNCHANGED <<fs, dirs, okw, okp, clean>>

\* LocalBackend::create (local.rs:335-347): create_dir_all of each
\* directory in turn; the first failure returns the error.
Create ==
    /\ CanCall
    /\ ops' = ops + 1
    /\ \E n \in 0..Len(CreateOrder) :
          /\ dirs' = dirs \cup {CreateOrder[i] : i \in 1..n}
          /\ last' = [NoCall EXCEPT !.op = "create",
                         !.res = IF n = Len(CreateOrder) THEN "ok" ELSE "err"]
          /\ clean' = (clean /\ n = Len(CreateOrder))
    /\ rprev' = <<>>
    /\ WbForget
    /\ UNCHANGED <<fs, cmds, okw, okp>>

\* write_bytes(tpe, id, _, buf) is called (local.rs:349-357)
WbCall ==
    /\ CanCall
    /\ ops' = ops + 1
    /\ \E k \in LKeys, buf \in LBufs : LET tpe == k[1]  id == k[2] IN
          /\ wb' = [pc |-> "open", tpe |-> tpe, id |-> id, buf |-> buf, off |-> 0]
          /\ wprev' = IF Path(tpe, id) \in DOMAIN fs
                        THEN [ex |-> TRUE, data |-> fs[Path(tpe, id)]]
                        ELSE NoFile
          /\ last' = [NoCall EXCEPT !.op = "write_bytes", !.tpe = tpe, !.id = id]
          /\ okw' = Without(okw, <<tpe, id>>)
          /\ okp' = Without(okp, Path(tpe, id))
    /\ wend' = "none"
    /\ rprev' = <<>>
    /\ UNCHANGED <<fs, dirs, cmds, clean>>

\* write_bytes returns the error of a step
WbFail ==
    /\ wb' = WbIdle
    /\ wend' = "err"
    /\ last' = [last EXCEPT !.res = "err"]
    /\ clean' = FALSE
    /\ UNCHANGED fs

\* local.rs:358-362: OpenOptions::new().create(true).write(true).open():
\* a missing file is created empty where its directory exists, an existing
\* one is left as it is.
WbOpen ==
    /\ wb.pc = "open"
    /\ \/ /\ LET p == Path(wb.tpe, wb.id)
             IN /\ p \in DOMAIN fs \/ DirExists(DirOf(p))
                /\ fs' = IF p \in DOMAIN fs THEN fs ELSE With(fs, p, <<>>)
          /\ wb' = [wb EXCEPT !.pc = "set_len"]
          /\ UNCHANGED <<wend, last, clean>>
       \/ WbFail
    /\ UNCHANGED <<wprev, ops, dirs, cmds, rprev, okw, okp>>

\* local.rs:363-368: file.set_len(buf.len())
WbSetLen ==
    /\ wb.pc = "set_len"
    /\ \/ /\ fs' = [fs EXCEPT ![Path(wb.tpe, wb.id)] = SetLen(@, Len(wb.buf))]
          /\ wb' = [wb EXCEPT !.pc = "write"]
          /\ UNCHANGED <<wend, last, clean>>
       \/ WbFail
    /\ UNCHANGED <<wprev, ops, dirs, cmds, rprev, okw, okp>>

\* local.rs:369-370: file.write_all(&buf), which writes the buffer from
\* offset 0 in as many write calls as it takes; one byte per step here.
WbWrite ==
    /\ wb.pc = "write"
    /\ \/ /\ wb.off < Len(wb.buf)
          /\ fs' = [fs EXCEPT ![Path(wb.tpe, wb.id)][wb.off + 1] = wb.buf[wb.off + 1]]
          /\ wb' = [wb EXCEPT !.off = wb.off + 1]
          /\ UNCHANGED <<wend, last, clean>>
       \/ /\ wb.off = Len(wb.buf)
          /\ wb' = [wb EXCEPT !.pc = "sync"]
          /\ UNCHANGED <<fs, wend, last, clean>>
       \/ /\ wb.off < Len(wb.buf)
          /\ WbFail
    /\ UNCHANGED <<wprev, ops, dirs, cmds, rprev, okw, okp>>

\* local.rs:371-378: file.sync_all(); then the post-create hook, whose
\* failure is logged only; then Ok(())
WbSync ==
    /\ wb.pc = "sync"
    /\ \/ /\ wb' = WbIdle
          /\ wend' = "ok"
          /\ \E h \in HookOutcomes(cmds.create) :
                last' = [last EXCEPT !.res = AfterHook(h), !.hook = h]
          /\ okw' = With(okw, <<wb.tpe, wb.id>>, wb.buf)
          /\ okp' = With(okp, Path(wb.tpe, wb.id), wb.buf)
          /\ UNCHANGED <<fs, clean>>
       \/ /\ WbFail
          /\ UNCHANGED <<okw, okp>>
    /\ UNCHANGED <<wprev, ops, dirs, cmds, rprev>>

\* The process stops inside write_bytes; the files stay as they are.
Crash ==
    /\ wb.pc # "idle"
    /\ wb' = WbIdle
    /\ wend' = "crash"
    /\ last' = [last EXCEPT !.res = "crash"]
    /\ clean' = FALSE
    /\ UNCHANGED <<fs, wprev, ops, dirs, cmds, rprev, okw, okp>>

\* Mutant of RemoveFileOk: a missing file counts as removed.
RemoveFileAny(p) == TRUE

\* fs::remove_file (local.rs:384) can succeed for an existing file only
RemoveFileOk(p) == p \in DOMAIN fs

\* LocalBackend::remove (local.rs:381-391): fs::remove_file, which fails
\* for a missing file (and may fail for an existing one); after a removal
\* the post-delete hook, whose failure is logged only; then Ok(())
Remove(tpe, id) ==
    /\ CanCall
    /\ ops' = ops + 1
    /\ LET p == Path(tpe, id)
       IN /\ \/ /\ RemoveFileOk(p)
                /\ fs' = Without(fs, p)
                /\ \E h \in HookOutcomes(cmds.delete) :
                      last' = [op |-> "remove", tpe |-> tpe, id |-> id,
                               res |-> AfterHook(h), hook |-> h]
                /\ UNCHANGED clean
             \/ /\ UNCHANGED fs
                /\ last' = [op |-> "remove", tpe |-> tpe, id |-> id,
                            res |-> "err", hook |-> "none"]
                /\ clean' = FALSE
          /\ okw' = Without(okw, <<tpe, id>>)
          /\ okp' = Without(okp, p)
    /\ rprev' = fs
    /\ WbForget
    /\ UNCHANGED <<dirs, cmds>>

\* no backup is running
ArchiveIdle ==
    /\ phase = "A"
    /\ src = <<>>
    /\ srcLen = 0
    /\ parent = <<>>
    /\ indexD = {}
    /\ indexT = {}
    /\ dataPacks = {}
    /\ treePacks = {}
    /\ indexes = {}
    /\ snaps = {}
    /\ treeA = <<>>
    /\ srcA = <<>>
    /\ snapIx = {}
    /\ pipeReset

\* a repository written earlier: the bytes of each (type, id) stored,
\* 2,1,2,.. of a length that differs per file
StoredBefore ==
    [k \in {<<"config", IdA>>, <<"pack", IdA>>, <<"snapshot", IdA>>} |->
        CASE k[1] = "config" -> <<2>>
          [] k[1] = "pack"   -> <<2, 1>>
          [] OTHER           -> <<2, 1, 2>>]

\* the files of the (type, id) -> bytes of f, at their paths
FilesOf(f) ==
    [p \in {Path(k[1], k[2]) : k \in DOMAIN f} |->
        f[CHOOSE k \in DOMAIN f : Path(k[1], k[2]) = p]]

\* LocalBackend::new on a directory that holds no repository yet, an empty
\* repository that create made, or a repository written earlier
InitLocal ==
    /\ ArchiveIdle
    /\ OthersIdle
    /\ LocalNew
    /\ \E created, written \in BOOLEAN :
          /\ written => created
          /\ dirs = IF created THEN AllDirs ELSE {}
          /\ okw = IF written THEN StoredBefore ELSE <<>>
          /\ okp = IF written THEN FilesOf(StoredBefore) ELSE <<>>
          /\ fs = okp

NextLocal ==
    \/ (\E o \in {"post-create-command", "post-delete-command", "verbose"} :
           SetOption(o, "cmd")) /\ UNCHANGED <<avars, fvars>>
    \/ Create /\ UNCHANGED <<avars, fvars>>
    \/ WbCall /\ UNCHANGED <<avars, fvars>>
    \/ WbOpen /\ UNCHANGED <<avars, fvars>>
    \/ WbSetLen /\ UNCHANGED <<avars, fvars>>
    \/ WbWrite /\ UNCHANGED <<avars, fvars>>
    \/ WbSync /\ UNCHANGED <<avars, fvars>>
    \/ Crash /\ UNCHANGED <<avars, fvars>>
    \/ (\E k \in LKeys : Remove(k[1], k[2])) /\ UNCHANGED <<avars, fvars>>

SpecLocal == InitLocal /\ [][NextLocal]_vars

\* the file at the final path of the last call, as read_full would read it
FinalFile ==
    LET p == Path(wb.tpe, wb.id)
    IN IF p \in DOMAIN fs THEN [ex |-> TRUE, data |-> fs[p]]
       ELSE [ex |-> FALSE, data |-> <<>>]

\* C10: after a crash at any step inside write_bytes(tpe, id, buf), the
\* final path holds no file or its previous content, or exactly buf; never
\* partial, zero-filled or mixed content.
C10_WriteBytesAtomic ==
    wend = "crash" =>
       \/ FinalFile = wprev
       \/ FinalFile = [ex |-> TRUE, data |-> wb.buf]

\* ------------------------------------------------------- Id: from_hex, to_hex
\* the characters of the strings given to from_hex: a digit, a lower-case
\* and an upper-case hex letter, and a letter that is no hex digit
HexAlphabet == {"0", "a", "F", "g"}

HexStrings == UNION {[1..n -> HexAlphabet] : n \in 0..(HEX_LEN + 2)}

IdBytes == {0, 171, 205, 255}

IdSet == [1..IdLen -> IdBytes]

\* a string for from_hex, or an Id for to_hex and path
InitId ==
    /\ ArchiveIdle
    /\ MoreIdle
    /\ LocalIdle
    /\ ConfigIdle
    /\ IndexIdle
    /\ hr = NoIdCall
    /\ \/ hs \in HexStrings /\ hx = NullId
       \/ hs = <<>> /\ hx \in IdSet

CallFromHex ==
    /\ hr.op = "none"
    /\ LET r == FromHex(hs)
       IN hr' = [NoIdCall EXCEPT !.op = "from_hex", !.ok = r.ok, !.err = r.err,
                                 !.id = r.id]
    /\ UNCHANGED <<hs, hx>>

\* to_hex and path are called on the Id drawn at the start
CallToHex ==
    /\ hr.op = "none"
    /\ hs = <<>>
    /\ hr' = [NoIdCall EXCEPT !.op = "to_hex", !.out = ToHex(hx)]
    /\ UNCHANGED <<hs, hx>>

\* LocalBackend::path(tpe, &hx)
CallPath(tpe) ==
    /\ hr.op = "none"
    /\ hs = <<>>
    /\ hr' = [NoIdCall EXCEPT !.op = "path", !.arg = tpe, !.out = Path(tpe, hx)]
    /\ UNCHANGED <<hs, hx>>

NextId ==
    \/ CallFromHex /\ UNCHANGED <<avars, lvars, cvars, xvars, mvars>>
    \/ CallToHex /\ UNCHANGED <<avars, lvars, cvars, xvars, mvars>>
    \/ (\E tpe \in AllTypes : CallPath(tpe)) /\ UNCHANGED <<avars, lvars, cvars, xvars, mvars>>

SpecId == InitId /\ [][NextId]_vars

\* C12: path maps (Config, any id) to <root>/config, (Pack, id) with hex H
\* to <root>/data/H[0:2]/H and every other type to <root>/<type>/H; and no
\* other (type, id) whose type is not Config has the path of a (type, id)
\* whose type is not Config.
C12_PathRule ==
    hr.op = "path" =>
       LET H == ToHex(hx)
       IN /\ hr.out = CASE hr.arg = "config"   -> <<"/", "config">>
                        [] hr.arg = "pack"     -> <<"/", "data", "/", H[1], H[2], "/">> \o H
                        [] hr.arg = "snapshot" -> <<"/", "snapshots", "/">> \o H
                        [] hr.arg = "index"    -> <<"/", "index", "/">> \o H
                        [] hr.arg = "key"      -> <<"/", "keys", "/">> \o H
          /\ hr.arg # "config" =>
                \A tpe \in AllTypes \ {"config"}, id \in IdSet :
                   <<tpe, id>> # <<hr.arg, hx>> => Path(tpe, id) # hr.out

\* path was called for a pack whose id is not the null id
C12_Witness == hr.op = "path" /\ hr.arg = "pack" /\ hx # NullId /\ hx[1] # hx[2]

\* the path of every (type, id) of the calls
LPaths == [k \in LKeys |-> Path(k[1], k[2])]

\* the offsets and lengths read_partial is asked for
Offsets == 0..(MaxLen + 1)

\* the bytes b[offset .. offset+length]
Slice(b, offset, length) == [i \in 1..length |-> b[offset + i]]

\* C11 as stated: after write_bytes(type, id, bytes) returned Ok and until
\* the next write_bytes or remove of the same (type, id), read_full
\* returns bytes, and read_partial returns bytes[offset .. offset+length]
\* when offset + length <= len(bytes) and an error otherwise.
C11_ReadAfterWrite ==
    \A k \in DOMAIN okw :
       /\ ReadFull(k[1], k[2]) = [ok |-> TRUE, data |-> okw[k]]
       /\ \A offset, length \in Offsets :
             ReadPartial(k[1], k[2], offset, length) =
                IF offset + length <= Len(okw[k])
                  THEN [ok |-> TRUE, data |-> Slice(okw[k], offset, length)]
                  ELSE [ok |-> FALSE, data |-> <<>>]

\* the bytes of the files write_bytes has stored, before and in the run
Written == LBufs \cup {StoredBefore[p] : p \in DOMAIN StoredBefore}

\* seek to offset and read_exact of length bytes, on every buffer written:
\* the slice when it lies within the bytes, nothing for length 0 at any
\* offset, an error otherwise
ReadExactSlices ==
    \A b \in Written, offset, length \in Offsets :
       ReadExact(b, offset, length) =
          IF offset + length <= Len(b)
            THEN [ok |-> TRUE, data |-> Slice(b, offset, length)]
          ELSE IF length = 0
            THEN [ok |-> TRUE, data |-> <<>>]
          ELSE [ok |-> FALSE, data |-> <<>>]

\* C11 amended: after write_bytes(type, id, bytes) returned Ok and until
\* the next write_bytes or remove on the same path (for Config: with any
\* id), read_full returns bytes, also over a longer or shorter file, and
\* read_partial reads from these bytes: bytes[offset .. offset+length] when
\* offset + length <= len(bytes), the empty slice for length 0 at any
\* offset, and an error otherwise.
C11_ReadAfterWritePath ==
    /\ ReadExactSlices
    /\ \A k \in LKeys :
          LPaths[k] \in DOMAIN okp =>
             \A b \in {okp[LPaths[k]]}, f \in {ReadFull(k[1], k[2])} :
                /\ b \in Written
                /\ f = [ok |-> TRUE, data |-> b]
                /\ ReadPartial(k[1], k[2], 0, Len(b)) = f
                /\ ReadPartial(k[1], k[2], Len(b), 1) = [ok |-> FALSE, data |-> <<>>]
                /\ ReadPartial(k[1], k[2], Len(b) + 1, 0) = [ok |-> TRUE, data |-> <<>>]

\* write_bytes returned Ok over a file that was longer than the buffer
C11_Witness ==
    /\ wend = "ok"
    /\ wprev.ex
    /\ Len(wb.buf) > 0
    /\ Len(wprev.data) > Len(wb.buf)
    /\ Path(wb.tpe, wb.id) \in DOMAIN okp


\* C13: after create and a sequence of successful write_bytes and remove
\* calls, list(type) holds exactly the ids of that type that were written
\* and not removed since, each once, packs in every data subdirectory
\* included; list(Config) is the single null Id if the config file was
\* written and not removed, and empty otherwise.
C13_ListIsStored ==
    (clean /\ wb.pc = "idle") =>
       /\ \A tpe \in LTypes \ {"config"} :
             /\ Range(List(tpe)) = {k[2] : k \in {j \in DOMAIN okw : j[1] = tpe}}
             /\ Len(List(tpe)) = Cardinality(Range(List(tpe)))
       /\ List("config") = IF Path("config", NullId) \in DOMAIN okp
                             THEN <<NullId>> ELSE <<>>

\* packs of two data subdirectories are stored after a successful
\* write_bytes, in a repository from which a file was removed
C13_Witness ==
    /\ clean
    /\ wb.pc = "idle"
    /\ wend = "ok"
    /\ Len(List("pack")) = 2
    /\ List("snapshot") = <<>>
    /\ AllDirs \subseteq dirs

\* C14: remove(type, id) of an existing file that returns Ok has deleted
\* exactly that file: the id is not in list(type), read_full fails, and
\* every other file keeps its content; on a (type, id) that does not exist
\* it returns an error, runs no post-delete hook and leaves the store as
\* it was (as does a remove that fails on an existing file).
C14_RemoveFrame ==
    last.op = "remove" =>
       LET p == Path(last.tpe, last.id)
       IN /\ p \notin DOMAIN rprev => last.res = "err"
          /\ last.res = "ok" =>
                /\ DOMAIN fs = (DOMAIN rprev) \ {p}
                /\ \A q \in DOMAIN fs : fs[q] = rprev[q]
                /\ ~ReadFull(last.tpe, last.id).ok
                /\ last.tpe # "config" => last.id \notin Range(List(last.tpe))
                /\ last.tpe = "config" => List("config") = <<>>
                /\ last.hook = "none" <=> cmds.delete = "none"
          /\ last.res = "err" =>
                /\ fs = rprev
                /\ last.hook = "none"

\* a file was removed from a store that holds other files, and the
\* post-delete hook ran
C14_Witness ==
    /\ last.op = "remove"
    /\ last.res = "ok"
    /\ last.hook # "none"
    /\ Cardinality(DOMAIN fs) >= 2

\* remove of a (type, id) that does not exist, with a post-delete hook set
C14_WitnessMissing ==
    /\ last.op = "remove"
    /\ Path(last.tpe, last.id) \notin DOMAIN rprev
    /\ cmds.delete # "none"

\* ------------------------------------------------------ claims on Id (hex)
HexDigits ==
    {"0", "1", "2", "3", "4", "5", "6", "7", "8", "9",
     "a", "b", "c", "d", "e", "f", "A", "B", "C", "D", "E", "F"}

LowerDigits ==
    {"0", "1", "2", "3", "4", "5", "6", "7", "8", "9",
     "a", "b", "c", "d", "e", "f"}

LowerCase(c) ==
    CASE c = "A" -> "a" [] c = "B" -> "b" [] c = "C" -> "c"
      [] c = "D" -> "d" [] c = "E" -> "e" [] c = "F" -> "f"
      [] OTHER -> c

C16_WitnessOk ==
    /\ hr.op = "from_hex"
    /\ hr.ok
    /\ Len(hs) = HEX_LEN

C16_WitnessNonHex ==
    /\ hr.op = "from_hex"
    /\ ~hr.ok
    /\ Len(hs) = HEX_LEN
    /\ hr.err = "InvalidHexCharacter"

\* C17: to_hex gives HEX_LEN lower-case hex digits from which from_hex gives
\* the Id back; for a string from_hex accepts, in either case, to_hex of the
\* result is the string in lower case.
C17_HexRoundTrip ==
    /\ hr.op = "to_hex" =>
          /\ Len(hr.out) = HEX_LEN
          /\ \A i \in 1..Len(hr.out) : hr.out[i] \in LowerDigits
          /\ FromHex(hr.out).ok
          /\ FromHex(hr.out).id = hx
    /\ (hr.op = "from_hex" /\ hr.ok) =>
          ToHex(hr.id) = [i \in 1..Len(hs) |-> LowerCase(hs[i])]

\* an accepted string with an upper-case digit
C17_Witness ==
    /\ hr.op = "from_hex"
    /\ hr.ok
    /\ \E i \in 1..Len(hs) : hs[i] = "F"
    /\ ToHex(hr.id) # hs

C17_WitnessToHex ==
    /\ hr.op = "to_hex"
    /\ \E i \in 1..Len(hr.out) : hr.out[i] = "c"

\* ------------------------------------------------------- ConfigFile::zstd
Versions == 0..MaxVersion

Compressions == {None} \cup {Some(c) : c \in (0 - MaxLevel)..MaxLevel}

\* a ConfigFile as read from the repository
InitConfig ==
    /\ ArchiveIdle
    /\ MoreIdle
    /\ LocalIdle
    /\ IdIdle
    /\ IndexIdle
    /\ cv \in Versions
    /\ cc \in Compressions
    /\ cr = NoConfigCall

CallZstd ==
    /\ cr.op = "none"
    /\ cr' = Zstd(cv, cc)
    /\ UNCHANGED <<cv, cc>>

NextConfig ==
    \/ CallZstd /\ UNCHANGED <<avars, lvars, ivars, xvars, mvars>>

SpecConfig == InitConfig /\ [][NextConfig]_vars

\* C18: zstd returns None for version 1 whatever the compression; for
\* version 2 it returns Some(0) when compression is not set, None when it is
\* Some(0) and Some(c) when it is Some(c) with c # 0; for every other version
\* it returns the error ConfigVersionNotSupported.
C18_ZstdByVersion ==
    cr.op = "zstd" =>
       /\ cv = 1 => (cr.ok /\ cr.val = <<>>)
       /\ (cv = 2 /\ cc = <<>>) => (cr.ok /\ cr.val = <<0>>)
       /\ (cv = 2 /\ cc = <<0>>) => (cr.ok /\ cr.val = <<>>)
       /\ (cv = 2 /\ cc # <<>> /\ cc # <<0>>) => (cr.ok /\ cr.val = cc)
       /\ cv \notin {1, 2} => (~cr.ok /\ cr.err = "ConfigVersionNotSupported")

\* version 1 with a compression level set
C18_Witness ==
    /\ cr.op = "zstd"
    /\ cv = 1
    /\ cc = <<3>>
    /\ cr.val = <<>>

C18_WitnessV2 ==
    /\ cr.op = "zstd"
    /\ cv = 2
    /\ cc = <<>>
    /\ cr.val = <<0>>

C18_WitnessOther ==
    /\ cr.op = "zstd"
    /\ cv = 3
    /\ ~cr.ok

\* ------------------------------------------------- Packer and IndexPack
BlobIds == {1, 2}

\* the length of a blob as stored: an encrypted blob is not empty
BlobLens == 1..MaxLen

\* Mutant of AddTpe: the type changes from one blob to the next.
AddTpeAlternate == IF Len(ipBlobs) % 2 = 0 THEN "tree" ELSE "data"

\* Packer: a writer for one blob type, which it records for every blob
AddTpe == pkT

\* Mutant of AddOffset: the number of the blob in the pack.
AddOffsetCount == Len(ipBlobs)

\* Packer: the blob is appended at the current offset of the pack
AddOffset == pkSize

\* a Packer for either blob type, with an empty pack
InitIndex ==
    /\ ArchiveIdle
    /\ MoreIdle
    /\ LocalIdle
    /\ IdIdle
    /\ ConfigIdle
    /\ pkT \in BlobTypes
    /\ pkSize = 0
    /\ ipBlobs = NewIndexPack
    /\ ipRes = "none"

\* Packer: the stored blob is appended to the pack and recorded with
\* IndexPack::add.
PackerAdd(id, length) ==
    /\ Len(ipBlobs) < MaxBlobs
    /\ ipBlobs' = IndexPackAdd(ipBlobs, id, AddTpe, AddOffset, length)
    /\ pkSize' = pkSize + length
    /\ ipRes' = "none"
    /\ UNCHANGED pkT

\* Packer: the pack is finalized and handed over; the next one is empty
PackerSave ==
    /\ ipBlobs # <<>>
    /\ ipBlobs' = NewIndexPack
    /\ pkSize' = 0
    /\ ipRes' = "none"
    /\ UNCHANGED pkT

CallBlobType ==
    /\ ipRes = "none"
    /\ ipRes' = BlobTypeOf(ipBlobs)
    /\ UNCHANGED <<pkT, pkSize, ipBlobs>>

NextIndex ==
    \/ (\E id \in BlobIds, n \in BlobLens : PackerAdd(id, n))
          /\ UNCHANGED <<avars, lvars, ivars, cvars, mvars>>
    \/ PackerSave /\ UNCHANGED <<avars, lvars, ivars, cvars, mvars>>
    \/ CallBlobType /\ UNCHANGED <<avars, lvars, ivars, cvars, mvars>>

SpecIndex == InitIndex /\ [][NextIndex]_vars

C19_WitnessEmpty ==
    /\ ipRes = "data"
    /\ ipBlobs = <<>>
    /\ pkT = "tree"

\* C20: the blobs of an IndexPack are in the order of their offsets, which
\* increase strictly; the first blob is at offset 0, every next one starts
\* where the one before it ends, and the last one ends where the trailer
\* begins.
C20_OffsetsTile ==
    /\ ipBlobs # <<>> =>
          /\ ipBlobs[1].offset = 0
          /\ ipBlobs[Len(ipBlobs)].offset + ipBlobs[Len(ipBlobs)].length = pkSize
    /\ \A i \in 1..(Len(ipBlobs) - 1) :
          /\ ipBlobs[i].offset < ipBlobs[i + 1].offset
          /\ ipBlobs[i + 1].offset = ipBlobs[i].offset + ipBlobs[i].length

\* a pack of blobs of different lengths
C20_Witness ==
    /\ Len(ipBlobs) >= 3
    /\ ipBlobs[1].length # ipBlobs[2].length
    /\ ipBlobs[3].offset = ipBlobs[1].length + ipBlobs[2].length

\* ------------------------------------------------- claims on set_option
\* the options set_option knows (local.rs:187-192)
SupportedOptions == {"post-create-command", "post-delete-command"}

\* C21: set_option returns an error for every option name other than
\* post-create-command and post-delete-command, and then leaves both hook
\* commands as they were.
C21_UnknownOptionIsError ==
    [][(last'.op = "set_option" /\ ops' = ops + 1
          /\ last'.opt \notin SupportedOptions)
         => (last'.res = "err" /\ cmds' = cmds)]_vars

\* what the code does: the unknown option is ignored, the call returns Ok
C21_UnknownOptionIgnored ==
    [][(last'.op = "set_option" /\ ops' = ops + 1
          /\ last'.opt \notin SupportedOptions)
         => (last'.res = "ok" /\ cmds' = cmds)]_vars

C21_Witness ==
    /\ last.op = "set_option"
    /\ last.opt = "verbose"
    /\ last.res = "ok"
    /\ cmds.create # "none"

\* ------------------------------------------------ SnapshotFile::modify_sn
Tags == 1..MaxTag

Times == 1..MaxTime

NoDup(l) == \A i, j \in DOMAIN l : l[i] = l[j] => i = j

\* the tags of a stored snapshot: up to two strings, in any order
TagSeqs == {l \in UNION {[1..n -> Tags] : n \in 0..2} : NoDup(l)}

\* a Vec<StringList> argument: empty, or one list of one or two strings
TagListArgs ==
    {<<>>} \cup {<<l>> : l \in {m \in TagSeqs : m # <<>> /\ SlSort(m) = m}}

DeleteOptions == {NotSet, Never} \cup {After(t) : t \in Times}

\* a snapshot and the arguments of modify_sn
InitSnap ==
    /\ ArchiveIdle
    /\ LocalIdle
    /\ IdIdle
    /\ ConfigIdle
    /\ IndexIdle
    /\ ScopeIdle
    /\ ListIdle
    /\ BlobIdle
    /\ InitCmdIdle
    /\ LatestIdle
    /\ PathIdle
    /\ sn \in [tags : TagSeqs, delete : DeleteOptions]
    /\ snArgs \in [set : TagListArgs, add : TagListArgs, remove : TagListArgs,
                   delete : {None} \cup {Some(d) : d \in DeleteOptions},
                   now : {0}]
    /\ snRes = NoSnCall

CallModifySn ==
    /\ snRes.op = "none"
    /\ LET r == ModifySn(sn, snArgs.set, snArgs.add, snArgs.remove, snArgs.delete)
       IN /\ sn' = r.sn
          /\ snRes' = [NoSnCall EXCEPT !.op = "modify_sn", !.before = sn,
                                       !.ret = r.ret]
    /\ UNCHANGED snArgs

\* Mutant of AfterDue: the snapshot is due at the time itself.
AfterDueAtTime(time, now) == time <= now

\* snapshotfile.rs:454: DeleteOption::After(time) if time < now
AfterDue(time, now) == time < now

\* SnapshotFile::must_delete (snapshotfile.rs:453-455)
MustDelete(s, now) == s.delete.k = "After" /\ AfterDue(s.delete.t, now)

\* SnapshotFile::must_keep (snapshotfile.rs:459-465)
MustKeep(s, now) ==
    CASE s.delete.k = "Never" -> TRUE
      [] s.delete.k = "After" /\ s.delete.t >= now -> TRUE
      [] OTHER -> FALSE

\* the moments a snapshot is asked about: before, at and after its time
Nows == 0..(MaxTime + 1)

\* must_delete(now) and must_keep(now) of the same snapshot
CallMust ==
    /\ snRes.op = "none"
    /\ \E now \in Nows :
          /\ snArgs' = [snArgs EXCEPT !.now = now]
          /\ snRes' = [NoSnCall EXCEPT !.op = "must", !.before = sn,
                                       !.del = MustDelete(sn, now),
                                       !.keep = MustKeep(sn, now)]
    /\ UNCHANGED sn

NextSnap ==
    \/ CallModifySn /\ UNCHANGED <<avars, lvars, ivars, cvars, xvars, nvars, lavars, plvars, ibvars, lsvars, scvars>>
    \/ CallMust /\ UNCHANGED <<avars, lvars, ivars, cvars, xvars, nvars, lavars, plvars, ibvars, lsvars, scvars>>

SpecSnap == InitSnap /\ [][NextSnap]_vars

\* C22: modify_sn returns None if and only if the tags and the delete option
\* after the call equal those before it, and Some(copy of the snapshot after
\* the call) otherwise, for every combination of set, add and remove.
C22_NoneIffUnchanged ==
    snRes.op = "modify_sn" =>
       /\ snRes.ret = <<>> <=> sn = snRes.before
       /\ snRes.ret # <<>> => snRes.ret = <<sn>>

\* what the code does: Some is returned when any step changed the tags or
\* the delete option was replaced, also when the steps cancel out
C22_NoneOnlyIfUnchanged ==
    snRes.op = "modify_sn" =>
       /\ snRes.ret = <<>> => sn = snRes.before
       /\ snRes.ret # <<>> => snRes.ret = <<sn>>

\* a tag is added and removed again: Some(snapshot) for an unchanged snapshot
C22_Witness ==
    /\ snRes.op = "modify_sn"
    /\ snArgs.add = <<<<1>>>>
    /\ snArgs.remove = <<<<1>>>>
    /\ sn = snRes.before
    /\ snRes.ret = <<sn>>

\* C26: must_delete(now) and must_keep(now) are never both true; with
\* After(t) must_delete holds exactly when t < now and must_keep exactly when
\* t >= now; with Never only must_keep holds; with NotSet neither holds.
C26_DeleteKeepExclusive ==
    snRes.op = "must" =>
       /\ ~(snRes.del /\ snRes.keep)
       /\ sn.delete.k = "After" =>
             /\ snRes.del <=> sn.delete.t < snArgs.now
             /\ snRes.keep <=> sn.delete.t >= snArgs.now
       /\ sn.delete.k = "Never" => (snRes.keep /\ ~snRes.del)
       /\ sn.delete.k = "NotSet" => (~snRes.del /\ ~snRes.keep)

\* a snapshot asked about at the very time of its After option is kept
C26_Witness ==
    /\ snRes.op = "must"
    /\ sn.delete.k = "After"
    /\ sn.delete.t = snArgs.now
    /\ snRes.keep
    /\ ~snRes.del

C26_WitnessDelete ==
    /\ snRes.op = "must"
    /\ sn.delete.k = "After"
    /\ snRes.del

\* ------------------------------------------------------------------ init
\* KeyOptions (key.rs:16-28): hostname and username given or not,
\* with_created
KeyOptionSet == [hostname : BOOLEAN, username : BOOLEAN, with_created : BOOLEAN]

\* init called on a location that holds nothing
InitInit ==
    /\ ArchiveIdle
    /\ LocalIdle
    /\ IdIdle
    /\ ConfigIdle
    /\ IndexIdle
    /\ ScopeIdle
    /\ ListIdle
    /\ BlobIdle
    /\ SnapIdle
    /\ LatestIdle
    /\ PathIdle
    /\ inPc = "start"
    /\ inOpts \in KeyOptionSet
    /\ inLog = <<>>
    /\ inRepo = EmptyRepo
    /\ inRet = "none"

\* Mutant of AfterStep: init goes on after a failed step.
AfterStepAlways(ok, next) == next

\* the ? operator (init.rs:20, 22, 33, 34, 36): an error ends init
AfterStep(ok, next) == IF ok THEN next ELSE "done"

ReturnAfter(ok) == IF ok THEN inRet ELSE "err"

\* init.rs:17-20: the config is built from a random id and polynomial and
\* the options; random_poly or config_opts.apply may fail
InitBuildConfig ==
    /\ inPc = "start"
    /\ \E ok \in BOOLEAN :
          /\ inPc' = AfterStep(ok, "create")
          /\ inRet' = ReturnAfter(ok)
    /\ UNCHANGED <<inOpts, inLog, inRepo>>

\* init.rs:33: repo.be.create(); a failed create may have made directories
InitCreate ==
    /\ inPc = "create"
    /\ \E ok \in BOOLEAN :
          /\ inPc' = AfterStep(ok, "key")
          /\ inRet' = ReturnAfter(ok)
          /\ inLog' = Append(inLog, [op |-> "create", ok |-> ok])
          /\ \E d \in (IF ok THEN {TRUE} ELSE BOOLEAN) :
                inRepo' = [inRepo EXCEPT !.dirs = d]
    /\ UNCHANGED inOpts

\* init.rs:34, key.rs:41-60: the key file is generated and serialized, which
\* may fail, then written with write_bytes(Key, hash(data)); a failed write
\* may leave the file
InitKey ==
    /\ inPc = "key"
    /\ \/ /\ inPc' = AfterStep(FALSE, "config")
          /\ inRet' = ReturnAfter(FALSE)
          /\ UNCHANGED <<inLog, inRepo>>
       \/ \E ok \in BOOLEAN :
             /\ inPc' = AfterStep(ok, "config")
             /\ inRet' = ReturnAfter(ok)
             /\ inLog' = Append(inLog, [op |-> "write_key", ok |-> ok])
             /\ \E w \in (IF ok THEN {TRUE} ELSE BOOLEAN) :
                   inRepo' = IF w THEN [inRepo EXCEPT !.keys = @ \cup {inOpts}]
                                  ELSE inRepo
    /\ UNCHANGED inOpts

\* init.rs:36: save_config writes the config file
InitSaveConfig ==
    /\ inPc = "config"
    /\ \E ok \in BOOLEAN :
          /\ inPc' = "done"
          /\ inRet' = IF ok THEN "ok" ELSE "err"
          /\ inLog' = Append(inLog, [op |-> "write_config", ok |-> ok])
          /\ \E w \in (IF ok THEN {TRUE} ELSE BOOLEAN) :
                inRepo' = [inRepo EXCEPT !.config = w]
    /\ UNCHANGED inOpts

NextInit ==
    \/ InitBuildConfig /\ UNCHANGED <<avars, lvars, ivars, cvars, xvars, snvars, lavars, plvars, ibvars, lsvars, scvars>>
    \/ InitCreate /\ UNCHANGED <<avars, lvars, ivars, cvars, xvars, snvars, lavars, plvars, ibvars, lsvars, scvars>>
    \/ InitKey /\ UNCHANGED <<avars, lvars, ivars, cvars, xvars, snvars, lavars, plvars, ibvars, lsvars, scvars>>
    \/ InitSaveConfig /\ UNCHANGED <<avars, lvars, ivars, cvars, xvars, snvars, lavars, plvars, ibvars, lsvars, scvars>>

SpecInit == InitInit /\ [][NextInit]_vars

InitOrder == <<"create", "write_key", "write_config">>

\* C23: when building the config fails init makes no backend operation and
\* nothing is created or written; otherwise the backend operations are
\* create, the write of the key file, the write of the config, in this
\* order; a failed step is the last one; after a successful init the
\* repository holds the config and exactly one key file.
C23_InitOrder ==
    /\ Len(inLog) <= Len(InitOrder)
    /\ \A i \in DOMAIN inLog :
          /\ inLog[i].op = InitOrder[i]
          /\ ~inLog[i].ok => (i = Len(inLog) /\ inPc = "done" /\ inRet = "err")
    /\ inLog = <<>> => inRepo = EmptyRepo
    /\ inRet = "ok" =>
          /\ Len(inLog) = Len(InitOrder)
          /\ \A i \in DOMAIN inLog : inLog[i].ok
          /\ inRepo.dirs
          /\ inRepo.config
          /\ Cardinality(inRepo.keys) = 1
    /\ inRet = "err" => inPc = "done"

\* the write of the key file failed: no config is written
C23_Witness ==
    /\ inRet = "err"
    /\ Len(inLog) = 2
    /\ ~inLog[2].ok
    /\ ~inRepo.config

C23_WitnessNoOp ==
    /\ inRet = "err"
    /\ inLog = <<>>

C23_WitnessOk ==
    /\ inRet = "ok"
    /\ inRepo.keys = {[hostname |-> TRUE, username |-> FALSE, with_created |-> TRUE]}

\* ------------------------------------------------- SnapshotFile::latest
\* what is read from a snapshot file: an error, or the snapshot, of which
\* the time and what the predicate says of it are kept
SnapReads == [ok : BOOLEAN, time : Times, m : BOOLEAN]

\* an item of be.stream_all::<SnapshotFile>: an error, or the id of the
\* file and the snapshot read from it
StreamItem(id, r) == [ok |-> r.ok, id |-> id, time |-> r.time, m |-> r.m]

InitLatest ==
    /\ ArchiveIdle
    /\ LocalIdle
    /\ IdIdle
    /\ ConfigIdle
    /\ IndexIdle
    /\ ScopeIdle
    /\ ListIdle
    /\ BlobIdle
    /\ SnapIdle
    /\ InitCmdIdle
    /\ PathIdle
    \* the files have different ids, here the place of the file in the
    \* stream, which yields the files in any order
    /\ \E n \in 0..MaxSnaps : \E r \in [1..n -> SnapReads] :
          laStore = [i \in 1..n |-> StreamItem(i, r[i])]
    /\ laPos = 1
    /\ laLatest = None
    /\ laRes = NoLatestCall

\* Mutant of TimeNewer: the older snapshot wins.
TimeOlder(l, snap) == l.time < snap.time

\* snapshotfile.rs:311: Some(l) if l.time > snap.time
TimeNewer(l, snap) == l.time > snap.time

\* the body of the loop for an item read without error
\* (snapshotfile.rs:305-316)
LatestVisit(latest, item) ==
    IF ~item.m THEN latest
    ELSE LET snap == [time |-> item.time, m |-> item.m, id |-> item.id]
         IN IF latest # None /\ TimeNewer(latest[1], snap)
              THEN latest
              ELSE Some(snap)

\* one turn of the loop (snapshotfile.rs:303-317); an Err item is returned
LatestNext ==
    /\ laRes.op = "none"
    /\ laPos <= Len(laStore)
    /\ IF laStore[laPos].ok
         THEN /\ laLatest' = LatestVisit(laLatest, laStore[laPos])
              /\ laPos' = laPos + 1
              /\ UNCHANGED laRes
         ELSE /\ laRes' = [NoLatestCall EXCEPT !.op = "latest", !.ok = FALSE,
                                               !.err = "ReadError"]
              /\ UNCHANGED <<laLatest, laPos>>
    /\ UNCHANGED laStore

\* snapshotfile.rs:318-319: latest.ok_or_else(NoSnapshotsFound)
LatestEnd ==
    /\ laRes.op = "none"
    /\ laPos > Len(laStore)
    /\ laRes' = IF laLatest = None
                  THEN [NoLatestCall EXCEPT !.op = "latest", !.ok = FALSE,
                                            !.err = "NoSnapshotsFound"]
                  ELSE [NoLatestCall EXCEPT !.op = "latest", !.snap = laLatest]
    /\ UNCHANGED <<laStore, laPos, laLatest>>

NextLatest ==
    \/ LatestNext /\ UNCHANGED <<avars, lvars, ivars, cvars, xvars, snvars, nvars, plvars, ibvars, lsvars, scvars>>
    \/ LatestEnd /\ UNCHANGED <<avars, lvars, ivars, cvars, xvars, snvars, nvars, plvars, ibvars, lsvars, scvars>>

SpecLatest == InitLatest /\ [][NextLatest]_vars

\* the stored snapshots that satisfy the predicate
Accepted == {i \in DOMAIN laStore : laStore[i].m}

RECURSIVE LatestOf(_, _)
\* the loop over a whole stream of readable items
LatestOf(items, latest) ==
    IF items = <<>> THEN latest
    ELSE LatestOf(Tail(items), LatestVisit(latest, Head(items)))

\* the stream without the snapshots the predicate rejects
OnlyAccepted == SelectSeq(laStore, LAMBDA x : x.m)

\* C24: when every stored snapshot can be read, latest returns a snapshot
\* that satisfies the predicate, with the id of its file, whose time is >=
\* the time of every stored snapshot that satisfies the predicate; it
\* returns NoSnapshotsFound exactly when no stored snapshot satisfies the
\* predicate; and the result is the one of the same repository without the
\* rejected snapshots.
C24_LatestIsNewest ==
    (laRes.op = "latest" /\ \A i \in DOMAIN laStore : laStore[i].ok) =>
       /\ laRes.ok =>
             /\ laRes.snap # <<>>
             /\ \E i \in Accepted :
                   /\ laRes.snap[1].id = laStore[i].id
                   /\ laRes.snap[1].time = laStore[i].time
             /\ \A j \in Accepted : laStore[j].time <= laRes.snap[1].time
       /\ ~laRes.ok => laRes.err = "NoSnapshotsFound"
       /\ (laRes.err = "NoSnapshotsFound") <=> (Accepted = {})
       /\ laRes.snap = LatestOf(OnlyAccepted, <<>>)

\* a newer snapshot is rejected by the predicate, an older one returned
C24_Witness ==
    /\ laRes.op = "latest"
    /\ laRes.ok
    /\ \A i \in DOMAIN laStore : laStore[i].ok
    /\ \E i \in DOMAIN laStore : ~laStore[i].m /\ laStore[i].time > laRes.snap[1].time
    /\ Cardinality(Accepted) >= 2

C24_WitnessNone ==
    /\ laRes.op = "latest"
    /\ laRes.err = "NoSnapshotsFound"
    /\ Len(laStore) >= 2

\* ------------------------------------------------- PathList::merge
\* A path is the sequence of its components, which is what the ordering and
\* starts_with of std::path::Path work on; a component is a number, in the
\* order of the components.
PathComponents == 1..2

PathSet == UNION {[1..n -> PathComponents] : n \in 0..MaxDepth}

RECURSIVE PathLess(_, _)
\* Ord for Path: the components compared one by one, a prefix first
PathLess(a, b) ==
    IF b = <<>> THEN FALSE
    ELSE IF a = <<>> THEN TRUE
    ELSE IF Head(a) # Head(b) THEN Head(a) < Head(b)
    ELSE PathLess(Tail(a), Tail(b))

\* Mutant of StartsWith: only an equal path counts.
StartsWithEqual(path, base) == path = base

\* Path::starts_with: base is a prefix of path, component by component
StartsWith(path, base) ==
    /\ Len(base) <= Len(path)
    /\ SubSeq(path, 1, Len(base)) = base

RECURSIVE PathInsert(_, _)
PathInsert(l, x) ==
    IF l = <<>> THEN <<x>>
    ELSE IF PathLess(x, Head(l)) THEN <<x>> \o l
    ELSE <<Head(l)>> \o PathInsert(Tail(l), x)

RECURSIVE PathSort(_)
\* paths.sort_unstable() (snapshotfile.rs:789)
PathSort(l) == IF l = <<>> THEN <<>> ELSE PathInsert(PathSort(Tail(l)), Head(l))

RECURSIVE Retain(_, _)
\* paths.retain(..) with the root_path it carries (snapshotfile.rs:791-800)
Retain(paths, root_path) ==
    IF paths = <<>> THEN <<>>
    ELSE IF root_path # None /\ StartsWith(Head(paths), root_path[1])
           THEN Retain(Tail(paths), root_path)
           ELSE <<Head(paths)>> \o Retain(Tail(paths), Some(Head(paths)))

\* PathList::merge (snapshotfile.rs:786-803)
Merge(paths) == Retain(PathSort(paths), None)

InitPath ==
    /\ ArchiveIdle
    /\ LocalIdle
    /\ IdIdle
    /\ ConfigIdle
    /\ IndexIdle
    /\ ScopeIdle
    /\ ListIdle
    /\ BlobIdle
    /\ SnapIdle
    /\ InitCmdIdle
    /\ LatestIdle
    /\ \E n \in 0..MaxPaths : plIn \in [1..n -> PathSet]
    /\ plOut = None

\* merge of the list, and merge of what merge returned
CallMerge ==
    /\ plOut = None
    /\ plOut' = Some(Merge(plIn))
    /\ UNCHANGED plIn

CallMergeAgain ==
    /\ plOut # None
    /\ plIn # plOut[1]
    /\ plIn' = plOut[1]
    /\ plOut' = Some(Merge(plOut[1]))

NextPath ==
    \/ CallMerge /\ UNCHANGED <<avars, lvars, ivars, cvars, xvars, snvars, nvars, lavars, ibvars, lsvars, scvars>>
    \/ CallMergeAgain /\ UNCHANGED <<avars, lvars, ivars, cvars, xvars, snvars, nvars, lavars, ibvars, lsvars, scvars>>

SpecPath == InitPath /\ [][NextPath]_vars

\* path is base or lies below base
SubPathOf(path, base) == \E n \in 0..Len(path) : SubSeq(path, 1, n) = base

\* C25: what merge returns is sorted, holds no path that is a sub-path of
\* another path it holds, holds only paths of the input, covers every path
\* of the input (which is a retained path or a sub-path of one), and is
\* returned as it is by a second merge.
C25_MergeCoversInput ==
    plOut # None =>
       \A out \in {plOut[1]} :
          /\ \A i, j \in DOMAIN out : i < j => PathLess(out[i], out[j])
          /\ \A i, j \in DOMAIN out : i # j => ~SubPathOf(out[i], out[j])
          /\ \A i \in DOMAIN out : \E k \in DOMAIN plIn : plIn[k] = out[i]
          /\ \A k \in DOMAIN plIn : \E i \in DOMAIN out : SubPathOf(plIn[k], out[i])
          /\ Merge(out) = out

\* a list out of order with a path, a sub-path of it and another path
C25_Witness ==
    /\ plOut # None
    /\ Len(plIn) = 3
    /\ Len(plOut[1]) = 2
    /\ PathLess(plIn[2], plIn[1])
    /\ \E i, j \in DOMAIN plIn :
          i # j /\ plIn[i] # plIn[j] /\ SubPathOf(plIn[i], plIn[j])

\* ------------------------------------------------- IndexBlob
\* IndexBlob (indexfile.rs:94-108) with the fields of small packs
IndexBlobs ==
    [id : BlobIds, tpe : BlobTypes, offset : 0..MaxLen, length : 1..MaxLen,
     uncompressed_length : {None} \cup {Some(n) : n \in 1..MaxLen}]

InitBlob ==
    /\ ArchiveIdle
    /\ LocalIdle
    /\ IdIdle
    /\ ConfigIdle
    /\ IndexIdle
    /\ ScopeIdle
    /\ ListIdle
    /\ SnapIdle
    /\ InitCmdIdle
    /\ LatestIdle
    /\ PathIdle
    /\ ibA \in IndexBlobs
    /\ ibB \in IndexBlobs
    /\ ibRes = NoCmp

\* u32::cmp
CmpInt(x, y) == IF x < y THEN "Less" ELSE IF x > y THEN "Greater" ELSE "Equal"

\* Ord for IndexBlob (indexfile.rs:116-120): the offsets are compared
IndexBlobCmp(a, b) == CmpInt(a.offset, b.offset)

\* derive(PartialEq) (indexfile.rs:94): every field is compared
IndexBlobEq(a, b) ==
    /\ a.id = b.id
    /\ a.tpe = b.tpe
    /\ a.offset = b.offset
    /\ a.length = b.length
    /\ a.uncompressed_length = b.uncompressed_length

CallCmp ==
    /\ ibRes.op = "none"
    /\ ibRes' = [op |-> "cmp", cmp |-> IndexBlobCmp(ibA, ibB),
                 eq |-> IndexBlobEq(ibA, ibB)]
    /\ UNCHANGED <<ibA, ibB>>

NextBlob ==
    \/ CallCmp /\ UNCHANGED <<avars, lvars, ivars, cvars, xvars, snvars, nvars, lavars, plvars, lsvars, scvars>>

SpecBlob == InitBlob /\ [][NextBlob]_vars

\* C27: for two IndexBlobs a and b, a.cmp(b) is Equal if and only if a == b.
C27_CmpEqualIffEq ==
    ibRes.op = "cmp" => (ibRes.cmp = "Equal" <=> ibRes.eq)

\* what the code gives: equal blobs compare Equal, and blobs that compare
\* Equal have the same offset
C27_EqImpliesCmpEqual ==
    ibRes.op = "cmp" =>
       /\ ibRes.eq => ibRes.cmp = "Equal"
       /\ ibRes.cmp = "Equal" <=> ibA.offset = ibB.offset

\* the first blobs of two packs: both at offset 0, with different ids
C27_Witness ==
    /\ ibRes.op = "cmp"
    /\ ibA.offset = 0
    /\ ibB.offset = 0
    /\ ibA.id # ibB.id
    /\ ibRes.cmp = "Equal"
    /\ ~ibRes.eq

\* ------------------------------------------------- list_with_size
\* metadata().len().try_into() (local.rs:261-265, 279-283): the u64 length
\* of the file as a u32, an error for a length above u32::MAX
SizeU32(p) ==
    IF p \in lsBig THEN [ok |-> FALSE, size |-> 0]
    ELSE [ok |-> TRUE, size |-> Len(fs[p])]

RECURSIVE WalkSized(_)
\* local.rs:271-286: the walk of list, each file mapped to Ok((id, size))
\* or to the error of from_hex or of the size, and filter_map(ok) drops the
\* errors
WalkSized(S) ==
    IF S = {} THEN <<>>
    ELSE LET p == CHOOSE q \in S : TRUE
             r == FromHex(FileName(p))
             n == SizeU32(p)
         IN (IF r.ok /\ n.ok THEN <<<<r.id, n.size>>>> ELSE <<>>)
               \o WalkSized(S \ {p})

\* LocalBackend::list_with_size (local.rs:255-291)
ListWithSize(tpe) ==
    IF tpe = "config"
      THEN LET p == Join(Root, <<TypeDir(tpe)>>)
           IN IF p \notin DOMAIN fs THEN [ok |-> TRUE, items |-> <<>>]
              ELSE IF SizeU32(p).ok
                     THEN [ok |-> TRUE, items |-> <<<<NullId, SizeU32(p).size>>>>]
                     ELSE [ok |-> FALSE, items |-> <<>>]
      ELSE [ok |-> TRUE, items |-> WalkSized(Walked(Join(Root, <<TypeDir(tpe)>>)))]

\* a file in the snapshots directory whose name is no id
StrayFile == Join(Join(Root, <<"snapshots">>), <<"t", "m", "p">>)

\* the files a repository directory may hold, empty or not
ListedPaths == {LPaths[k] : k \in LKeys} \cup {StrayFile}

ListedFiles ==
    UNION {[S -> {<<>>, <<1, 2>>}] : S \in SUBSET ListedPaths}

\* a repository directory with any of the files, at most one of them too
\* long for a u32
InitList ==
    /\ ArchiveIdle
    /\ IdIdle
    /\ ConfigIdle
    /\ IndexIdle
    /\ ScopeIdle
    /\ SnapIdle
    /\ InitCmdIdle
    /\ LatestIdle
    /\ PathIdle
    /\ BlobIdle
    /\ LocalNew
    /\ dirs = AllDirs
    /\ fs \in ListedFiles
    /\ okw = <<>>
    /\ okp = <<>>
    /\ lsBig \in {S \in SUBSET (DOMAIN fs) : Cardinality(S) <= 1}
    /\ \E tpe \in LTypes : lsRes = [NoListCall EXCEPT !.tpe = tpe]

CallList ==
    /\ lsRes.ids = None
    /\ lsRes' = [lsRes EXCEPT !.ids = Some(List(lsRes.tpe))]
    /\ UNCHANGED lsBig

CallListWithSize ==
    /\ lsRes.sized = None
    /\ lsRes' = [lsRes EXCEPT !.sized = Some(ListWithSize(lsRes.tpe))]
    /\ UNCHANGED lsBig

NextList ==
    \/ CallList /\ UNCHANGED <<avars, lvars, ivars, cvars, xvars, snvars, nvars, lavars, plvars, ibvars, scvars>>
    \/ CallListWithSize /\ UNCHANGED <<avars, lvars, ivars, cvars, xvars, snvars, nvars, lavars, plvars, ibvars, scvars>>

SpecList == InitList /\ [][NextList]_vars

\* the ids of the items of list_with_size, in their order
SizedIds(items) == [i \in DOMAIN items |-> items[i][1]]

\* C28: list_with_size(type) returns the ids that list(type) returns, each
\* with the length of its file; no file is left out, also not one whose
\* length does not fit in 32 bits.
C28_SizedSameAsList ==
    (lsRes.ids # None /\ lsRes.sized # None) =>
       /\ lsRes.sized[1].ok
       /\ SizedIds(lsRes.sized[1].items) = lsRes.ids[1]
       /\ \A i \in DOMAIN lsRes.sized[1].items :
             lsRes.sized[1].items[i][2]
                = Len(fs[Path(lsRes.tpe, lsRes.sized[1].items[i][1])])

\* what the code gives: the ids of list whose file fits a u32, each with the
\* length of its file; for the config file an error when it does not fit
C28_SizedAreListedSmall ==
    (lsRes.ids # None /\ lsRes.sized # None) =>
       /\ lsRes.sized[1].ok <=>
             ~(lsRes.tpe = "config" /\ Path("config", NullId) \in lsBig)
       /\ lsRes.sized[1].ok =>
             /\ SizedIds(lsRes.sized[1].items)
                   = SelectSeq(lsRes.ids[1],
                               LAMBDA id : Path(lsRes.tpe, id) \notin lsBig)
             /\ \A i \in DOMAIN lsRes.sized[1].items :
                   lsRes.sized[1].items[i][2]
                      = Len(fs[Path(lsRes.tpe, lsRes.sized[1].items[i][1])])

\* two packs, one of them too long for a u32: list returns both ids,
\* list_with_size returns Ok with one
C28_Witness ==
    /\ lsRes.ids # None
    /\ lsRes.sized # None
    /\ lsRes.tpe = "pack"
    /\ Len(lsRes.ids[1]) = 2
    /\ lsRes.sized[1].ok
    /\ Len(lsRes.sized[1].items) = 1

\* ------------------------------------------------- the scope of archive
\* The threads of scope(..) in Archiver::archive (archiver.rs:114-135): the
\* worker threads of parallel_map_scoped, the thread of readahead_scoped,
\* which owns the iterator chain up to parallel_map and pulls it, and the
\* calling thread, which runs try_for_each and then leaves the scope, where
\* it waits for the other threads.  Only what can block is kept: the
\* number of items in each channel and the position of each thread.
InitScope ==
    /\ ArchiveIdle
    /\ LocalIdle
    /\ IdIdle
    /\ ConfigIdle
    /\ IndexIdle
    /\ SnapIdle
    /\ InitCmdIdle
    /\ LatestIdle
    /\ PathIdle
    /\ BlobIdle
    /\ ListIdle
    /\ \E n \in 0..MaxItems : ScopeStart(n)

\* Mutant of SendFails: a send to a channel without receiver waits.
SendWaits(rxAlive) == FALSE

\* a send to a channel whose receiver was dropped returns an error
SendFails(rxAlive) == ~rxAlive

\* the iterator chain is dropped: both channels of parallel_map close
DropParallelMap ==
    /\ scInTx' = FALSE
    /\ scOutRx' = FALSE

\* parallel_map: next() first sends entries of the source to the workers
\* while fewer than BufferSize are in flight
RaPump ==
    /\ scRa = "next"
    /\ scSrc > 0
    /\ scFlight < BufferSize
    /\ scSrc' = scSrc - 1
    /\ scIn' = scIn + 1
    /\ scFlight' = scFlight + 1
    /\ UNCHANGED <<scInTx, scOut, scOutRx, scWk, scRa, scCons, scRet, scSeen>>

\* parallel_map: next() then waits for a result of a worker, which the
\* readahead thread sends on
RaRecv ==
    /\ scRa = "next"
    /\ scSrc = 0 \/ scFlight = BufferSize
    /\ scOut > 0
    /\ scOut' = scOut - 1
    /\ scFlight' = scFlight - 1
    /\ scRa' = "send"
    /\ UNCHANGED <<scSrc, scIn, scInTx, scOutRx, scWk, scCons, scRet, scSeen>>

\* parallel_map: next() returns None after the last result; the readahead
\* thread ends and drops the chain
RaEnd ==
    /\ scRa = "next"
    /\ scSrc = 0
    /\ scFlight = 0
    /\ scRa' = "exit"
    /\ DropParallelMap
    /\ UNCHANGED <<scSrc, scIn, scOut, scFlight, scWk, scCons, scRet, scSeen>>

\* readahead (archiver.rs:125): the item is handed to try_for_each, which
\* waits for it: the channel holds ReadaheadSize items, none
RaSend ==
    /\ scRa = "send"
    /\ scCons = "recv"
    /\ scRa' = "next"
    /\ scCons' = "add"
    /\ UNCHANGED <<scSrc, scIn, scInTx, scOut, scOutRx, scFlight, scWk, scRet, scSeen>>

\* readahead: try_for_each has returned and its receiver is dropped; the
\* send fails, and the thread ends or goes on with the next item
RaSendFails ==
    /\ scRa = "send"
    /\ SendFails(scCons \in {"recv", "add"})
    /\ \/ /\ scRa' = "exit"
          /\ DropParallelMap
       \/ /\ scRa' = "next"
          /\ UNCHANGED <<scInTx, scOutRx>>
    /\ UNCHANGED <<scSrc, scIn, scOut, scFlight, scWk, scCons, scRet, scSeen>>

\* a worker thread takes an item (archiver.rs:124)
ScWorkerRecv(w) ==
    /\ scWk[w] = "recv"
    /\ scIn > 0
    /\ scIn' = scIn - 1
    /\ scWk' = [scWk EXCEPT ![w] = "busy"]
    /\ UNCHANGED <<scSrc, scInTx, scOut, scOutRx, scFlight, scRa, scCons, scRet, scSeen>>

\* a worker thread finds its channel empty and closed, and ends
ScWorkerExit(w) ==
    /\ scWk[w] = "recv"
    /\ scIn = 0
    /\ ~scInTx
    /\ scWk' = [scWk EXCEPT ![w] = "exit"]
    /\ UNCHANGED <<scSrc, scIn, scInTx, scOut, scOutRx, scFlight, scRa, scCons, scRet, scSeen>>

\* file_archiver.process(item, p) returns
ScWorkerProcess(w) ==
    /\ scWk[w] = "busy"
    /\ scWk' = [scWk EXCEPT ![w] = "send"]
    /\ UNCHANGED <<scSrc, scIn, scInTx, scOut, scOutRx, scFlight, scRa, scCons, scRet, scSeen>>

\* the worker hands its result over, waiting while the channel is full
ScWorkerSend(w) ==
    /\ scWk[w] = "send"
    /\ scOutRx
    /\ scOut < ChannelCap
    /\ scOut' = scOut + 1
    /\ scWk' = [scWk EXCEPT ![w] = "recv"]
    /\ UNCHANGED <<scSrc, scIn, scInTx, scOutRx, scFlight, scRa, scCons, scRet, scSeen>>

\* the receiver of the results is gone: the result is thrown away
ScWorkerSendFails(w) ==
    /\ scWk[w] = "send"
    /\ SendFails(scOutRx)
    /\ scWk' = [scWk EXCEPT ![w] = "recv"]
    /\ UNCHANGED <<scSrc, scIn, scInTx, scOut, scOutRx, scFlight, scRa, scCons, scRet, scSeen>>

\* a thread waits in a send that cannot go on
BlockedInSend ==
    \/ scRa = "send"
    \/ \E w \in Workers : scWk[w] = "send" /\ scOut = ChannelCap

\* archiver.rs:126-133: an Err result is dropped, an Ok result goes to
\* tree_archiver.add; its Ok lets try_for_each go on, its Err ends
\* try_for_each, and the iterator is dropped as the closure returns
ScConsumerAdd ==
    /\ scCons = "add"
    /\ \/ /\ scCons' = "recv"
          /\ UNCHANGED <<scRet, scSeen>>
       \/ /\ scCons' = "join"
          /\ scRet' = "err"
          /\ scSeen' = BlockedInSend
    /\ UNCHANGED <<scSrc, scIn, scInTx, scOut, scOutRx, scFlight, scWk, scRa>>

\* the readahead thread has ended: try_for_each returns Ok(())
ScConsumerEnd ==
    /\ scCons = "recv"
    /\ scRa = "exit"
    /\ scCons' = "join"
    /\ scRet' = "ok"
    /\ UNCHANGED <<scSrc, scIn, scInTx, scOut, scOutRx, scFlight, scWk, scRa, scSeen>>

\* archiver.rs:134-135: the scope ends when all its threads have ended
ScopeJoin ==
    /\ scCons = "join"
    /\ scRa = "exit"
    /\ \A w \in Workers : scWk[w] = "exit"
    /\ scCons' = "returned"
    /\ UNCHANGED <<scSrc, scIn, scInTx, scOut, scOutRx, scFlight, scWk, scRa, scRet, scSeen>>

NextScope ==
    \/ RaPump /\ UNCHANGED <<avars, lvars, ivars, cvars, xvars, snvars, nvars, lavars, plvars, ibvars, lsvars>>
    \/ RaRecv /\ UNCHANGED <<avars, lvars, ivars, cvars, xvars, snvars, nvars, lavars, plvars, ibvars, lsvars>>
    \/ RaEnd /\ UNCHANGED <<avars, lvars, ivars, cvars, xvars, snvars, nvars, lavars, plvars, ibvars, lsvars>>
    \/ RaSend /\ UNCHANGED <<avars, lvars, ivars, cvars, xvars, snvars, nvars, lavars, plvars, ibvars, lsvars>>
    \/ RaSendFails /\ UNCHANGED <<avars, lvars, ivars, cvars, xvars, snvars, nvars, lavars, plvars, ibvars, lsvars>>
    \/ (\E w \in Workers : ScWorkerRecv(w)) /\ UNCHANGED <<avars, lvars, ivars, cvars, xvars, snvars, nvars, lavars, plvars, ibvars, lsvars>>
    \/ (\E w \in Workers : ScWorkerExit(w)) /\ UNCHANGED <<avars, lvars, ivars, cvars, xvars, snvars, nvars, lavars, plvars, ibvars, lsvars>>
    \/ (\E w \in Workers : ScWorkerProcess(w)) /\ UNCHANGED <<avars, lvars, ivars, cvars, xvars, snvars, nvars, lavars, plvars, ibvars, lsvars>>
    \/ (\E w \in Workers : ScWorkerSend(w)) /\ UNCHANGED <<avars, lvars, ivars, cvars, xvars, snvars, nvars, lavars, plvars, ibvars, lsvars>>
    \/ (\E w \in Workers : ScWorkerSendFails(w)) /\ UNCHANGED <<avars, lvars, ivars, cvars, xvars, snvars, nvars, lavars, plvars, ibvars, lsvars>>
    \/ ScConsumerAdd /\ UNCHANGED <<avars, lvars, ivars, cvars, xvars, snvars, nvars, lavars, plvars, ibvars, lsvars>>
    \/ ScConsumerEnd /\ UNCHANGED <<avars, lvars, ivars, cvars, xvars, snvars, nvars, lavars, plvars, ibvars, lsvars>>
    \/ ScopeJoin /\ UNCHANGED <<avars, lvars, ivars, cvars, xvars, snvars, nvars, lavars, plvars, ibvars, lsvars>>

\* every thread that can take a step takes one in the end
ScopeFair ==
    /\ WF_scvars(RaPump)
    /\ WF_scvars(RaRecv)
    /\ WF_scvars(RaEnd)
    /\ WF_scvars(RaSend)
    /\ WF_scvars(RaSendFails)
    /\ \A w \in Workers : WF_scvars(ScWorkerRecv(w))
    /\ \A w \in Workers : WF_scvars(ScWorkerExit(w))
    /\ \A w \in Workers : WF_scvars(ScWorkerProcess(w))
    /\ \A w \in Workers : WF_scvars(ScWorkerSend(w))
    /\ \A w \in Workers : WF_scvars(ScWorkerSendFails(w))
    /\ WF_scvars(ScConsumerAdd)
    /\ WF_scvars(ScConsumerEnd)
    /\ WF_scvars(ScopeJoin)

SpecScope == InitScope /\ [][NextScope]_vars /\ ScopeFair

\* C29: for every finite source the scope of archive ends and archive goes
\* on to return, with the threads scheduled fairly: no thread waits for
\* ever, also not when tree_archiver.add returns an error and try_for_each
\* stops taking items while threads wait in a send.
C29_ArchiveReturns == <>(scCons = "returned")

\* add returned an error while a thread waited in a send, and the scope
\* has ended with that error
C29_Witness ==
    /\ scCons = "returned"
    /\ scRet = "err"
    /\ scSeen
    /\ scSrc = 0

C29_WitnessOk ==
    /\ scCons = "returned"
    /\ scRet = "ok"
    /\ scSrc = 0

\* ------------------------------------------------- hooks of LocalBackend
\* C30: a post-create or post-delete hook that fails changes nothing of
\* what the call gives: write_bytes returns Ok with the whole buffer in the
\* file, remove returns Ok with the file deleted; and a hook has run only
\* in a call whose write or deletion succeeded.
C30_HookFailureIgnored ==
    last.hook # "none" =>
       /\ last.res = "ok"
       /\ last.op \in {"write_bytes", "remove"}
       /\ \A p \in {LPaths[<<last.tpe, last.id>>]} :
             /\ last.op = "write_bytes" =>
                   /\ cmds.create # "none"
                   /\ wend = "ok"
                   /\ p \in DOMAIN fs
                   /\ fs[p] = wb.buf
             /\ last.op = "remove" =>
                   /\ cmds.delete # "none"
                   /\ p \notin DOMAIN fs
                   /\ p \in DOMAIN rprev

\* write_bytes of a buffer whose post-create hook failed
C30_Witness ==
    /\ last.op = "write_bytes"
    /\ last.hook = "failed"
    /\ last.res = "ok"
    /\ Len(wb.buf) = MaxLen

\* remove of a file whose post-delete hook failed
C30_WitnessRemove ==
    /\ last.op = "remove"
    /\ last.hook = "failed"
    /\ last.res = "ok"

====
